---- MODULE Spec2Model ----
(***************************************************************************)
(* The peer session engine of src-tauri/src/backend: the peer registry     *)
(* (active_peers), the transfer table (active_transfers), the two tokio    *)
(* mutexes that guard them, the per-connection reader and writer tasks,    *)
(* the peer-message handlers, the command handlers of the event router and *)
(* the engine shutdown.                                                    *)
(*                                                                         *)
(* Every task is a small program counter machine.  A step of a task runs   *)
(* from one await that can suspend (mutex acquisition, a send on a bounded *)
(* channel, a socket read or write, a sleep) to the next one.  A tokio     *)
(* Mutex is not re-entrant: a task that awaits lock() on a mutex whose     *)
(* guard it still holds never resumes.                                     *)
(*                                                                         *)
(* Spec     : one engine (node "A") whose remote peer is an arbitrary      *)
(*            program on the other end of the socket.                      *)
(* SpecPair : two engines ("A" and "B") running this code, connected to    *)
(*            each other.                                                  *)
(***************************************************************************)
EXTENDS Integers, Sequences, FiniteSets, TLC

\* ------------------------------------------------------------------ bounds
\* TCP connections ever opened in one run of the model.
MaxConns == 1
\* Capacity of a peer's outbox (mpsc::channel(32) in handle_connection).
OutboxCap == 1
\* Frames the raw remote peer writes in one run.
MaxFrames == 3
\* Commands the UI submits to the router in one run of the single engine.
MaxCmds == 1
\* Commands the UI of the connecting engine submits in one run of the pair of
\* engines; the UI of the accepting engine submits one fewer.
MaxPairCmds == 2
\* Commands the UI submits in one run of the engine with file transfers.
MaxXferCmds == 2

\* ------------------------------------------------------- program constants
MAX_MESSAGE_SIZE == 10485760

Nodes == {"A", "B"}
\* A connection has one session at each engine it ends at.
Sids == 1..(2 * MaxConns)
NoneV == "None"

\* The peer of node n as a registry key (SocketAddr in the code).
AddrsOf(n) == Nodes \ {n}
\* Every address a peer may have: the two nodes and C, which runs no engine.
Addrs == Nodes \cup {"C"}

\* Option<String> payloads used by commands and messages.
Texts == {NoneV, "bye"}
\* Texts only a UI types: the longest message whose ConnectResponse(Deny)
\* still fits a frame, and the shortest one whose does not.
LongText == "long"
HugeText == "huge"
UITexts == Texts \cup {LongText, HugeText}
\* Identity a remote peer announces; this code always announces "todo!".
SelfName == "todo!"
Names == {SelfName}
TransferIds == {1}

\* ------------------------------------------------------------ wire messages
KeepAlive == [tag |-> "KeepAlive"]
ConnectRequestMsg(i) == [tag |-> "ConnectRequest", info |-> i]
ConnectResponsePermit(i, m) == [tag |-> "ConnectResponse", permit |-> "Permit", info |-> i, message |-> m]
ConnectResponseDeny(m) == [tag |-> "ConnectResponse", permit |-> "Deny", info |-> NoneV, message |-> m]
DisconnectRequestMsg(m) == [tag |-> "DisconnectRequest", message |-> m]
DisconnectAck == [tag |-> "DisconnectAck"]
ImmediateConnectionClose(m) == [tag |-> "ImmediateConnectionClose", message |-> m]
FileOfferRequestMsg(id) == [tag |-> "FileOfferRequest", id |-> id]
FileOfferResponseMsg(id, acc) == [tag |-> "FileOfferResponse", id |-> id, accept |-> acc]
FileChunk == [tag |-> "FileChunk"]
FileChunkAck == [tag |-> "FileChunkAck"]
FileDone == [tag |-> "FileDone"]
FileDoneResult == [tag |-> "FileDoneResult"]
NoMsg == [tag |-> "NoMsg"]

Message ==
    {KeepAlive, DisconnectAck, FileChunk, FileChunkAck, FileDone, FileDoneResult}
    \cup {ConnectRequestMsg(i) : i \in Names}
    \cup {ConnectResponsePermit(i, m) : i \in Names, m \in UITexts}
    \cup {ConnectResponseDeny(m) : m \in UITexts}
    \cup {DisconnectRequestMsg(m) : m \in Texts}
    \cup {ImmediateConnectionClose(m) : m \in Texts}
    \cup {FileOfferRequestMsg(id) : id \in TransferIds}
    \cup {FileOfferResponseMsg(id, acc) : id \in TransferIds, acc \in BOOLEAN}

\* UTF-8 bytes of the strings that occur in messages.
Utf8Len(str) ==
    CASE str = "bye" -> 3 [] str = "todo!" -> 5 [] str = "0.1.0" -> 5
      [] str = LongText -> MAX_MESSAGE_SIZE - 8
      [] str = HugeText -> MAX_MESSAGE_SIZE - 7
      [] OTHER -> 21
\* Bytes of a String under the bincode configuration of protocol.rs: a
\* variable-length integer for the length (one byte below 251, a marker and
\* two bytes below 2^16, a marker and four bytes below 2^32), then the bytes.
StrLen(str) ==
    LET n == Utf8Len(str)
    IN  (IF n < 251 THEN 1 ELSE IF n < 65536 THEN 3 ELSE 5) + n
\* Bytes of an Option<String>: one tag byte, then the string when Some.
OptLen(m) == IF m = NoneV THEN 1 ELSE 1 + StrLen(m)
\* Bytes bincode::encode_to_vec produces for a message: a one-byte variant
\* index followed by the fields (a Uuid is a 16 byte sequence with its length).
EncodedLen(m) ==
    CASE m.tag = "ConnectRequest" -> 1 + StrLen(m.info) + StrLen("0.1.0")
      [] m.tag = "ConnectResponse" ->
            1 + (IF m.permit = "Permit" THEN 1 + StrLen(m.info) + StrLen("0.1.0") ELSE 1)
              + OptLen(m.message)
      [] m.tag = "DisconnectRequest" -> 1 + OptLen(m.message)
      [] m.tag = "ImmediateConnectionClose" -> 1 + OptLen(m.message)
      [] m.tag = "FileOfferRequest" -> 1 + 2 + 17 + 1 + 5
      [] m.tag = "FileOfferResponse" -> 1 + 17 + 1
      [] m.tag \in {"FileChunk", "FileChunkAck", "FileDone", "FileDoneResult"} -> 1 + 17 + 2
      [] OTHER -> 1

\* A frame on the wire: the 4-byte length header and the payload that follows.
\* payload is a message (whose encoding has EncodedLen bytes, possibly followed
\* by trailing bytes up to len) or Garbage (bytes that do not decode).
Garbage == [tag |-> "Garbage"]
Frame(l, p) == [len |-> l, payload |-> p]
WellFormed(m) == Frame(EncodedLen(m), m)

\* ---------------------------------------------------------------- state
VARIABLES
    active_peers,      \* [node -> [addr -> Peer or NoPeer]]   PeerManager.active_peers
    active_transfers,  \* [node -> [TransferIds -> record or NoTransfer]]
    shutdown_tx,       \* [node -> BOOLEAN]   Some(sender) = TRUE, None = FALSE
    peersLock,         \* [node -> task]      holder of the active_peers mutex
    transfersLock,     \* [node -> task]      holder of the active_transfers mutex
    events,            \* [node -> Seq(BackendEvent)]  what the UI has been sent
    accept,            \* [node -> state of the task running PeerManager::start]
    sess,              \* [Sids -> connection: endpoints, outbox, inbound bytes]
    rd,                \* [Sids -> reader task (read_messages)]
    wr,                \* [Sids -> writer task (closure in handle_connection)]
    router,            \* [node -> router task (FrontendManager::start)]
    framesLeft,        \* frames the raw remote peer may still write
    cmdsLeft,          \* [node -> commands the UI may still submit]
    notified           \* [Sids -> ConnectionClose/ConnectionBroken events sent for
                       \*  the Peer of that session] (history)

vars == <<active_peers, active_transfers, shutdown_tx, peersLock, transfersLock,
          events, accept, sess, rd, wr, router, framesLeft, cmdsLeft, notified>>

\* ---------------------------------------------------------------- tasks
NoTask == <<"none", "-", 0>>
Rt(n) == <<"router", n, 0>>
Rd(s) == <<"reader", sess[s].node, s>>
Wr(s) == <<"writer", sess[s].node, s>>

\* ---------------------------------------------------------------- records
NoPeer == [sid |-> 0, state |-> "Absent", peer_info |-> NoneV, reason |-> NoneV]
\* Peer { addr, state: PeerState::Connected { peer_info: None }, tx }
NewPeer(s) == [sid |-> s, state |-> "Connected", peer_info |-> NoneV, reason |-> NoneV]
NoTransfer == [peer |-> NoneV, direction |-> NoneV, status |-> NoneV]

FreeSess == [st |-> "free", node |-> "-", addr |-> "-", outbox |-> <<>>,
             inbox |-> <<>>, sock |-> "open", link |-> 0]
\* len is the header value of the frame the reader is working on (0: none).
IdleRd == [pc |-> "none", msg |-> NoMsg, len |-> 0, drop |-> NoneV, ret |-> "-"]
IdleWr == [pc |-> "none", msg |-> NoMsg, drop |-> NoneV]
NoCmd == [type |-> "NoCmd"]
IdleRouter == [pc |-> "await_ready", cmd |-> NoCmd, drop |-> NoneV,
               draining |-> <<>>, polls |-> 0]
NoRouter == [IdleRouter EXCEPT !.pc = "none"]
\* The task running PeerManager::start: the listener (st), the shutdown
\* signal it selects on (signal) and start tasks spawned and not yet bound.
NoAccept == [st |-> "none", signal |-> FALSE, spawned |-> 0]

\* ---------------------------------------------------------------- events
\* BackendEvent values sent on backend_event_tx.
ConnectionBroken(a, i, m) == [type |-> "ConnectionBroken", ip |-> a, name |-> i, message |-> m]
ConnectionClose(a, i, m) == [type |-> "ConnectionClose", ip |-> a, name |-> i, message |-> m]
ConnectRequestEv(a, i) == [type |-> "ConnectRequest", ip |-> a, name |-> i]
ConnectionRequestResponseEv(a, acc, m) ==
    [type |-> "ConnectionRequestResponse", ip |-> a, accept |-> acc, reason |-> m]
BadFrontendEvent(c, e) == [type |-> "BadFrontendEvent", event |-> c, error |-> e]
FileOfferEv(a, i, id) == [type |-> "FileOffer", ip |-> a, name |-> i, unique_id |-> id]
BackendReady == [type |-> "BackendReady"]
BackendShutdown == [type |-> "BackendShutdown"]
BackendFatal == [type |-> "BackendFatal"]

\* ------------------------------------------------------------- channels
\* Some Sender of the session's outbox still exists: the Peer in the registry
\* owns one, and so does a Peer that shutdown() has drained and not yet dropped.
TxAlive(s) ==
    \/ \E n \in Nodes, a \in Addrs : a # n /\ active_peers[n][a].sid = s
    \/ \E n \in Nodes : \E i \in 1..Len(router[n].draining) : router[n].draining[i].sid = s
\* The Receiver of the outbox is gone with the writer task that owned it.
RxClosed(s) == wr[s].pc = "ended"
CanSend(s) == Len(sess[s].outbox) < OutboxCap
\* tx.send(m).await resumes when there is capacity or the receiver is gone.
SendReady(s) == RxClosed(s) \/ CanSend(s)
Enqueue(ss, s, m) == [ss EXCEPT ![s].outbox = Append(@, m)]

\* What the other end of the connection sees when local tasks end: the writer
\* owns the write half (its drop sends FIN), the reader the read half; when
\* both are gone the socket is closed.
NextSock(cur, rdGone, wrGone) ==
    IF cur = "reset" THEN cur
    ELSE IF rdGone /\ wrGone THEN "closed"
    ELSE IF wrGone THEN "eof"
    ELSE cur
Gone(pc) == pc \in {"ended", "panicked"}
Hangup(ss, s, rdPc, wrPc) ==
    IF ss[s].link = 0 THEN ss
    ELSE [ss EXCEPT ![ss[s].link].sock = NextSock(@, Gone(rdPc), Gone(wrPc))]

\* Guards a task still holds are dropped when its handler returns or unwinds.
Release(lock, n, t) == IF lock[n] = t THEN [lock EXCEPT ![n] = NoTask] ELSE lock

\* ------------------------------------------------------------- drop_peer
\* A drop_peer that reports the stored reason even when it is given one.
DropPeerEventStoredReason(peer, a, message) ==
    IF peer.state = "Authenticated"
    THEN <<ConnectionBroken(a, peer.peer_info, message)>>
    ELSE IF peer.state = "Disconnecting"
    THEN <<ConnectionClose(a, peer.peer_info, peer.reason)>>
    ELSE <<>>
\* The notification drop_peer sends for the Peer it removed.
DropPeerEvent(peer, a, message) ==
    IF peer.state = "Authenticated"
    THEN <<ConnectionBroken(a, peer.peer_info, message)>>
    ELSE IF peer.state = "Disconnecting"
    THEN <<ConnectionClose(a, peer.peer_info,
                           IF message # NoneV THEN message ELSE peer.reason)>>
    ELSE <<>>
\* A drop_peer that reads the Peer and leaves it in the registry.
DropPeerKeep(reg, a) == reg
\* The registry after drop_peer: active_peers.remove(&peer_addr).
DropPeerRemove(reg, a) == [reg EXCEPT ![a] = NoPeer]
\* drop_peer(peer_addr, message) run by a task of node n; it first awaits the
\* registry mutex, which it then holds until it returns.
drop_peer(n, a, message) ==
    /\ peersLock[n] = NoTask
    /\ active_peers' = [active_peers EXCEPT ![n] = DropPeerRemove(@, a)]
    /\ events' = [events EXCEPT ![n] = @ \o DropPeerEvent(active_peers[n][a], a, message)]
    /\ notified' = IF DropPeerEvent(active_peers[n][a], a, message) = <<>> THEN notified
                   ELSE [notified EXCEPT ![active_peers[n][a].sid] = @ + 1]

\* ------------------------------------------------- frequently used groups
lockVars == <<peersLock, transfersLock>>
budgetVars == <<framesLeft, cmdsLeft>>
lifeVars == <<shutdown_tx, accept, notified>>

SetRd(s, pc) == rd' = [rd EXCEPT ![s].pc = pc]
\* The handler of the reader returns to the 'recv loop of read_messages.
RdReturn(s) ==
    /\ rd' = [rd EXCEPT ![s] = [@ EXCEPT !.pc = "read_len", !.msg = NoMsg, !.len = 0,
                                        !.drop = NoneV]]
    /\ peersLock' = Release(peersLock, sess[s].node, Rd(s))
    /\ transfersLock' = Release(transfersLock, sess[s].node, Rd(s))
\* The reader calls drop_peer(peer_addr, m); ret is where it goes afterwards
\* ("break" leaves the 'recv loop, "return" ends the handler).
RdCallDrop(s, m, ret) ==
    rd' = [rd EXCEPT ![s] = [@ EXCEPT !.pc = "drop_peer", !.drop = m, !.ret = ret]]
\* A panic unwinds the task: its guards and its half of the socket are dropped.
RdPanic(s) ==
    /\ rd' = [rd EXCEPT ![s] = [@ EXCEPT !.pc = "panicked", !.msg = NoMsg]]
    /\ peersLock' = Release(peersLock, sess[s].node, Rd(s))
    /\ transfersLock' = Release(transfersLock, sess[s].node, Rd(s))

\* Reasons handed to drop_peer.
TooLarge == "Peer sent a message larger than the maximum size"
LengthMismatch == "Peer sent a message with a length that differs from the actual length"
DeserializeFailed == "Failed to deserialize peer message"
ReadLenFailed == "Failed to read len buffer from peer"
WriteFailed == "Failed to send message"
OversizedSend == "We are trying to send a message larger than the maximum size"
UnexpectedState == "Unexpected state. Disconnecting peer."
PeerInfoNotSet == "Peer info not set when handling DisconnectRequest"
SendError == "channel closed"

\* ------------------------------------------------------ handle_connection
\* The task spawned per accepted or opened connection: it inserts the Peer
\* (replacing any Peer stored under the same address) and spawns the reader
\* and the writer.
handle_connection(s) ==
    LET n == sess[s].node
        a == sess[s].addr
    IN  /\ sess[s].st = "pending"
        /\ peersLock[n] = NoTask
        /\ active_peers' = [active_peers EXCEPT ![n][a] = NewPeer(s)]
        /\ sess' = [sess EXCEPT ![s].st = "live"]
        /\ rd' = [rd EXCEPT ![s].pc = "read_len"]
        /\ wr' = [wr EXCEPT ![s].pc = "recv"]
        /\ UNCHANGED <<active_transfers, lockVars, lifeVars, events, router, budgetVars>>

\* ------------------------------------------------------------ read_messages
\* handle_message: the handler a decoded message is dispatched to; the four
\* chunk variants are todo!().
HandlerOf(m) ==
    CASE m.tag = "KeepAlive" -> "keep_alive"
      [] m.tag = "ConnectRequest" -> "connect_request"
      [] m.tag = "ConnectResponse" -> "connect_response"
      [] m.tag = "DisconnectRequest" -> "disconnect_request"
      [] m.tag = "DisconnectAck" -> "disconnect_ack"
      [] m.tag = "ImmediateConnectionClose" -> "immediate_connection_close"
      [] m.tag = "FileOfferRequest" -> "file_offer_request"
      [] m.tag = "FileOfferResponse" -> "file_offer_response"
      [] OTHER -> "panicked"

\* A decode that does not compare the decoded length with the header.
DecodeIgnoringLength(f) ==
    IF f.payload = Garbage \/ EncodedLen(f.payload) > f.len THEN "err"
    ELSE "ok"
\* bincode::decode_from_slice(&buf): "err", "mismatch" (fewer bytes decoded
\* than the header announced) or "ok".
Decode(f) ==
    IF f.payload = Garbage \/ EncodedLen(f.payload) > f.len THEN "err"
    ELSE IF EncodedLen(f.payload) # f.len THEN "mismatch"
    ELSE "ok"

\* A length check that also rejects a header of exactly MAX_MESSAGE_SIZE.
TooLongInclusive(len) == len >= MAX_MESSAGE_SIZE
\* The length check on the 4-byte header.
TooLong(len) == len > MAX_MESSAGE_SIZE

\* One round of the 'recv loop once read_exact has delivered the header of
\* frame f (rest is what stays buffered behind it): the length check (an
\* oversized header goes to drop_peer with the payload left unread),
\* read_exact of the payload, decode, the check of the decoded length, and
\* handle_message.
ReadFrame(s, f, rest) ==
    LET d == Decode(f)
    IN  IF TooLong(f.len)
        THEN /\ rd' = [rd EXCEPT ![s] = [@ EXCEPT !.pc = "drop_peer", !.len = f.len,
                                                   !.drop = TooLarge, !.ret = "break"]]
             /\ sess' = [sess EXCEPT ![s].inbox = <<f>> \o rest]
        ELSE /\ sess' = Hangup([sess EXCEPT ![s].inbox = rest], s,
                               IF d = "ok" THEN HandlerOf(f.payload) ELSE "drop_peer", wr[s].pc)
             /\ rd' = [rd EXCEPT ![s] =
                    IF d = "ok"
                    THEN [@ EXCEPT !.pc = HandlerOf(f.payload), !.len = f.len,
                                   !.msg = IF HandlerOf(f.payload) = "panicked" THEN NoMsg
                                           ELSE f.payload]
                    ELSE [@ EXCEPT !.pc = "drop_peer", !.ret = "break", !.len = f.len,
                                   !.drop = IF d = "err" THEN DeserializeFailed
                                            ELSE LengthMismatch]]
\* read_exact of the header fails: EOF or an I/O error ends the loop through
\* drop_peer.
ReadFails(s, sock) == RdCallDrop(s, IF sock = "reset" THEN ReadLenFailed ELSE NoneV, "break")
readRest == <<active_peers, active_transfers, lockVars, lifeVars, events, wr, router, cmdsLeft>>

\* The reader of a connection to another engine: it reads what that engine's
\* writer has written, or finds the connection closed.
read_messages(s) ==
    /\ rd[s].pc = "read_len"
    /\ IF sess[s].inbox # <<>>
       THEN ReadFrame(s, Head(sess[s].inbox), Tail(sess[s].inbox))
       ELSE /\ sess[s].sock # "open"
            /\ ReadFails(s, sess[s].sock)
            /\ UNCHANGED sess
    /\ UNCHANGED framesLeft /\ UNCHANGED readRest

\* The reader is inside drop_peer; when drop_peer returns the reader either
\* leaves its loop (the task ends) or its handler returns.
reader_drop_peer(s) ==
    LET n == sess[s].node
    IN  /\ rd[s].pc = "drop_peer"
        /\ drop_peer(n, sess[s].addr, rd[s].drop)
        /\ IF rd[s].ret = "break"
           THEN /\ rd' = [rd EXCEPT ![s] = [@ EXCEPT !.pc = "ended", !.msg = NoMsg]]
                /\ sess' = Hangup(sess, s, "ended", wr[s].pc)
                /\ UNCHANGED lockVars
           ELSE /\ RdReturn(s)
                /\ UNCHANGED sess
        /\ UNCHANGED <<active_transfers, shutdown_tx, accept, wr, router, budgetVars>>

\* ------------------------------------------------- peer-message handlers
\* The Peer stored under the reader's address (of whichever session).
MyPeer(s) == active_peers[sess[s].node][sess[s].addr]
SetPeer(s, p) == active_peers' = [active_peers EXCEPT ![sess[s].node][sess[s].addr] = p]
RdLock(s) == peersLock' = [peersLock EXCEPT ![sess[s].node] = Rd(s)]
RdEmit(s, e) == events' = [events EXCEPT ![sess[s].node] = Append(@, e)]
rdRest == <<active_transfers, lifeVars, wr, router, budgetVars>>

\* peer.tx.send(m).await, awaited while the reader holds the registry guard.
\* onErr is what the handler does with an Err: "panic" (expect) or a reason
\* passed to drop_peer; onOk is "return" or "drop_peer".
RdSend(s, m, onOk, onErr) ==
    LET t == MyPeer(s).sid
    IN  /\ SendReady(t)
        /\ IF RxClosed(t)
           THEN /\ IF onErr = "panic"
                   THEN RdPanic(s)
                   ELSE RdCallDrop(s, onErr, "return") /\ UNCHANGED lockVars
                /\ sess' = IF onErr = "panic" THEN Hangup(sess, s, "panicked", wr[s].pc) ELSE sess
           ELSE /\ sess' = Enqueue(sess, t, m)
                /\ IF onOk = "return"
                   THEN RdReturn(s)
                   ELSE RdCallDrop(s, NoneV, "return") /\ UNCHANGED lockVars

\* handle_keep_alive: after the 10 s sleep the reader takes the registry guard.
handle_keep_alive(s) ==
    /\ rd[s].pc = "keep_alive"
    /\ peersLock[sess[s].node] = NoTask
    /\ IF MyPeer(s) = NoPeer
       THEN RdReturn(s)
       ELSE SetRd(s, "keep_alive_send") /\ RdLock(s) /\ UNCHANGED transfersLock
    /\ UNCHANGED <<active_peers, events, sess>> /\ UNCHANGED rdRest
handle_keep_alive_send(s) ==
    /\ rd[s].pc = "keep_alive_send"
    /\ RdSend(s, KeepAlive, "return", "panic")
    /\ UNCHANGED <<active_peers, events>> /\ UNCHANGED rdRest

\* handle_connect_request: notify the UI, store the peer info, start the
\* keep-alive ping-pong.
handle_connect_request(s) ==
    /\ rd[s].pc = "connect_request"
    /\ RdEmit(s, ConnectRequestEv(sess[s].addr, rd[s].msg.info))
    /\ SetRd(s, "connect_request_store")
    /\ UNCHANGED <<active_peers, lockVars, sess>> /\ UNCHANGED rdRest
handle_connect_request_store(s) ==
    /\ rd[s].pc = "connect_request_store"
    /\ peersLock[sess[s].node] = NoTask
    /\ IF MyPeer(s) = NoPeer
       THEN UNCHANGED active_peers
       ELSE SetPeer(s, [MyPeer(s) EXCEPT !.state = "Connected",
                                         !.peer_info = rd[s].msg.info, !.reason = NoneV])
    /\ SetRd(s, "connect_request_lock")
    /\ UNCHANGED <<lockVars, events, sess>> /\ UNCHANGED rdRest
handle_connect_request_lock(s) ==
    /\ rd[s].pc = "connect_request_lock"
    /\ peersLock[sess[s].node] = NoTask
    /\ IF MyPeer(s) = NoPeer
       THEN RdReturn(s)
       ELSE SetRd(s, "connect_request_send") /\ RdLock(s) /\ UNCHANGED transfersLock
    /\ UNCHANGED <<active_peers, events, sess>> /\ UNCHANGED rdRest
handle_connect_request_send(s) ==
    /\ rd[s].pc = "connect_request_send"
    /\ RdSend(s, KeepAlive, "return", "panic")
    /\ UNCHANGED <<active_peers, events>> /\ UNCHANGED rdRest

\* handle_connect_response.  Permit: Connected becomes Authenticated and the
\* UI is told; in another state drop_peer is called under the guard.  Deny:
\* the UI is told, DisconnectAck is sent, then drop_peer under the guard.
handle_connect_response(s) ==
    LET m == rd[s].msg
        p == MyPeer(s)
    IN  /\ rd[s].pc = "connect_response"
        /\ peersLock[sess[s].node] = NoTask
        /\ IF p = NoPeer
           THEN RdReturn(s) /\ UNCHANGED <<active_peers, events>>
           ELSE IF m.permit = "Permit"
           THEN IF p.state = "Connected"
                THEN /\ SetPeer(s, [p EXCEPT !.state = "Authenticated", !.peer_info = m.info])
                     /\ RdEmit(s, ConnectionRequestResponseEv(sess[s].addr, TRUE, NoneV))
                     /\ RdReturn(s)
                ELSE /\ RdCallDrop(s, UnexpectedState, "return")
                     /\ RdLock(s)
                     /\ UNCHANGED <<active_peers, events, transfersLock>>
           ELSE /\ RdEmit(s, ConnectionRequestResponseEv(sess[s].addr, FALSE, m.message))
                /\ SetRd(s, "connect_response_send")
                /\ RdLock(s)
                /\ UNCHANGED <<active_peers, transfersLock>>
        /\ UNCHANGED sess /\ UNCHANGED rdRest
handle_connect_response_send(s) ==
    /\ rd[s].pc = "connect_response_send"
    /\ RdSend(s, DisconnectAck, "drop_peer", "panic")
    /\ UNCHANGED <<active_peers, events>> /\ UNCHANGED rdRest

\* handle_disconnect_request.
handle_disconnect_request(s) ==
    LET m == rd[s].msg
        p == MyPeer(s)
    IN  /\ rd[s].pc = "disconnect_request"
        /\ peersLock[sess[s].node] = NoTask
        /\ IF p = NoPeer
           THEN RdReturn(s) /\ UNCHANGED active_peers
           ELSE /\ RdLock(s)
                /\ UNCHANGED transfersLock
                /\ IF p.state = "Disconnecting"
                   THEN RdCallDrop(s, NoneV, "return") /\ UNCHANGED active_peers
                   ELSE IF p.state = "Connected" /\ p.peer_info = NoneV
                   THEN RdCallDrop(s, PeerInfoNotSet, "return") /\ UNCHANGED active_peers
                   ELSE /\ SetPeer(s, [p EXCEPT !.state = "Disconnecting", !.reason = m.message])
                        /\ SetRd(s, "disconnect_request_send")
        /\ UNCHANGED <<events, sess>> /\ UNCHANGED rdRest
handle_disconnect_request_send(s) ==
    /\ rd[s].pc = "disconnect_request_send"
    /\ RdSend(s, DisconnectAck, "drop_peer", SendError)
    /\ UNCHANGED <<active_peers, events>> /\ UNCHANGED rdRest

\* handle_disconnect_ack: drop_peer(peer_addr, None), no guard held.
handle_disconnect_ack(s) ==
    /\ rd[s].pc = "disconnect_ack"
    /\ RdCallDrop(s, NoneV, "return")
    /\ UNCHANGED <<active_peers, lockVars, events, sess>> /\ UNCHANGED rdRest

\* handle_immediate_connection_close.
handle_immediate_connection_close(s) ==
    LET m == rd[s].msg
        p == MyPeer(s)
    IN  /\ rd[s].pc = "immediate_connection_close"
        /\ peersLock[sess[s].node] = NoTask
        /\ IF p = NoPeer
           THEN RdReturn(s) /\ UNCHANGED active_peers
           ELSE /\ RdLock(s)
                /\ UNCHANGED transfersLock
                /\ IF p.state = "Disconnecting"
                   THEN RdCallDrop(s, NoneV, "return") /\ UNCHANGED active_peers
                   ELSE IF p.state = "Connected" /\ p.peer_info = NoneV
                   THEN RdCallDrop(s, PeerInfoNotSet, "return") /\ UNCHANGED active_peers
                   ELSE /\ SetPeer(s, [p EXCEPT !.state = "Disconnecting", !.reason = m.message])
                        /\ RdCallDrop(s, NoneV, "return")
        /\ UNCHANGED <<events, sess>> /\ UNCHANGED rdRest

\* FileTransferState as the handlers build it.
Transfer(a, dir, st) == [peer |-> a, direction |-> dir, status |-> st]
RdTLock(s) == transfersLock' = [transfersLock EXCEPT ![sess[s].node] = Rd(s)]

\* handle_file_offer_request (peer message): registry guard first; for an
\* Authenticated peer the UI is told and the record is inserted under the
\* transfer-table guard, taken while the registry guard is held.
handle_file_offer_request(s) ==
    LET p == MyPeer(s)
    IN  /\ rd[s].pc = "file_offer_request"
        /\ peersLock[sess[s].node] = NoTask
        /\ IF p = NoPeer
           THEN RdReturn(s) /\ UNCHANGED events
           ELSE /\ RdLock(s)
                /\ UNCHANGED transfersLock
                /\ IF p.state = "Authenticated"
                   THEN /\ RdEmit(s, FileOfferEv(sess[s].addr, p.peer_info, rd[s].msg.id))
                        /\ SetRd(s, "file_offer_request_insert")
                   ELSE /\ RdCallDrop(s, IF p.state = "Connected"
                                         THEN "Peer sent a file offer request before authentication"
                                         ELSE NoneV, "return")
                        /\ UNCHANGED events
        /\ UNCHANGED <<active_peers, sess>> /\ UNCHANGED rdRest
handle_file_offer_request_insert(s) ==
    LET n == sess[s].node
    IN  /\ rd[s].pc = "file_offer_request_insert"
        /\ transfersLock[n] = NoTask
        /\ active_transfers' = [active_transfers EXCEPT ![n][rd[s].msg.id] =
                                    Transfer(sess[s].addr, "Receiving", "InProgress")]
        /\ RdReturn(s)
        /\ UNCHANGED <<active_peers, lifeVars, events, sess, wr, router, budgetVars>>

\* handle_file_offer_response (peer message): registry guard first, then the
\* transfer-table guard.
handle_file_offer_response(s) ==
    LET p == MyPeer(s)
    IN  /\ rd[s].pc = "file_offer_response"
        /\ peersLock[sess[s].node] = NoTask
        /\ IF p = NoPeer
           THEN RdReturn(s)
           ELSE /\ RdLock(s)
                /\ UNCHANGED transfersLock
                /\ IF p.state = "Authenticated"
                   THEN SetRd(s, "file_offer_response_update")
                   ELSE RdCallDrop(s, IF p.state = "Connected"
                                      THEN "Peer sent a file offer response before authentication"
                                      ELSE NoneV, "return")
        /\ UNCHANGED <<active_peers, events, sess>> /\ UNCHANGED rdRest
\* File::open(file_path) of the sender either succeeds or fails (fileOk).
handle_file_offer_response_update(s, fileOk) ==
    LET n == sess[s].node
        m == rd[s].msg
        t == active_transfers[n][m.id]
    IN  /\ rd[s].pc = "file_offer_response_update"
        /\ transfersLock[n] = NoTask
        /\ IF t = NoTransfer
           THEN RdReturn(s) /\ UNCHANGED <<active_transfers, sess>>
           ELSE IF t.direction = "Sending"
           THEN IF m.accept /\ ~fileOk
                THEN /\ active_transfers' = [active_transfers EXCEPT ![n][m.id].status = "Error"]
                     /\ RdPanic(s)
                     /\ sess' = Hangup(sess, s, "panicked", wr[s].pc)
                ELSE /\ active_transfers' = [active_transfers EXCEPT ![n][m.id].status =
                                                IF m.accept THEN "InProgress" ELSE "Rejected"]
                     /\ RdReturn(s)
                     /\ UNCHANGED sess
           ELSE /\ RdCallDrop(s, "Cannot accept file response while receiving", "return")
                /\ RdTLock(s)
                /\ UNCHANGED <<active_transfers, peersLock, sess>>
        /\ UNCHANGED <<active_peers, lifeVars, events, wr, router, budgetVars>>

\* ------------------------------------------------------------ writer task
wrRest == <<active_transfers, lifeVars, rd, router, budgetVars>>
\* A channel that forgets what it buffers as soon as every Sender is gone.
RecvNoneOnClose(s) == ~TxAlive(s)
\* rx.recv() returns None: every Sender is gone and the buffer is empty.
RecvNone(s) == sess[s].outbox = <<>> /\ ~TxAlive(s)
\* rx.recv().await: the next queued message, or None once every Sender is gone.
writer_recv(s) ==
    /\ wr[s].pc = "recv"
    /\ IF RecvNone(s)
       THEN /\ wr' = [wr EXCEPT ![s].pc = "ended"]
            /\ sess' = Hangup(sess, s, rd[s].pc, "ended")
       ELSE /\ sess[s].outbox # <<>>
            /\ wr' = [wr EXCEPT ![s] = [@ EXCEPT !.pc = "write", !.msg = Head(sess[s].outbox)]]
            /\ sess' = [sess EXCEPT ![s].outbox = Tail(@)]
    /\ UNCHANGED <<active_peers, lockVars, events>> /\ UNCHANGED wrRest
\* A size check that lets the 4 bytes of the header into the limit.
SendTooLongWithHeader(len) == len > MAX_MESSAGE_SIZE + 4
\* if bytes.len() > MAX_MESSAGE_SIZE
SendTooLong(len) == len > MAX_MESSAGE_SIZE
\* Encode, check the size, write the length and the payload (ok: both
\* write_all succeed).  A write to another engine fails only when that end is
\* gone; a write on a socket the remote has closed may still succeed, on a
\* reset socket it fails; a remote program may abort the connection any time.
writer_write(s, ok) ==
    LET m == wr[s].msg
    IN  /\ wr[s].pc = "write"
        /\ (sess[s].sock = "eof" \/ (sess[s].sock = "open" /\ sess[s].link # 0)) => ok
        /\ (sess[s].sock = "reset") => ~ok
        /\ IF SendTooLong(EncodedLen(m))
           THEN /\ wr' = [wr EXCEPT ![s] = [@ EXCEPT !.pc = "drop_peer", !.drop = OversizedSend]]
                /\ UNCHANGED sess
           ELSE IF ~ok
           THEN /\ wr' = [wr EXCEPT ![s] = [@ EXCEPT !.pc = "drop_peer", !.drop = WriteFailed]]
                /\ sess' = [sess EXCEPT ![s].sock = IF @ = "open" THEN "reset" ELSE @]
           ELSE /\ wr' = [wr EXCEPT ![s] = [@ EXCEPT !.pc = "recv", !.msg = NoMsg]]
                /\ sess' = IF sess[s].link = 0 \/ Gone(rd[sess[s].link].pc) THEN sess
                           ELSE [sess EXCEPT ![sess[s].link].inbox = Append(@, WellFormed(m))]
        /\ UNCHANGED <<active_peers, lockVars, events>> /\ UNCHANGED wrRest
\* drop_peer called by the writer, which then breaks out of its loop.
writer_drop_peer(s) ==
    /\ wr[s].pc = "drop_peer"
    /\ drop_peer(sess[s].node, sess[s].addr, wr[s].drop)
    /\ wr' = [wr EXCEPT ![s] = [@ EXCEPT !.pc = "ended", !.msg = NoMsg]]
    /\ sess' = Hangup(sess, s, rd[s].pc, "ended")
    /\ UNCHANGED <<lockVars, active_transfers, shutdown_tx, accept, rd, router, budgetVars>>

\* ------------------------------------------------------------ UI commands
\* FrontendEvent values the UI submits on frontend_event_tx.
ConnectRequestCmd(a) == [type |-> "ConnectRequest", ip |-> a]
\* Text the UI sends as an address that is no "ip:port".
BadAddr == "not-an-address"
\* connect_request.ip.parse::<SocketAddr>()
ParseSocketAddr(str) ==
    IF str \in Addrs THEN [ok |-> TRUE, value |-> str] ELSE [ok |-> FALSE, value |-> NoneV]
DisconnectRequestCmd(a, m) == [type |-> "DisconnectRequest", ip |-> a, message |-> m]
ConnectionRequestResponseCmd(a, acc, m) ==
    [type |-> "ConnectionRequestResponse", ip |-> a, accept |-> acc, message |-> m]
\* unique_id is the Uuid::new_v4() the handler draws for the transfer.
TransmitFileCmd(a, id) == [type |-> "TransmitFile", ip |-> a, unique_id |-> id]
FileOfferResponseCmd(id, acc) == [type |-> "FileOfferResponse", unique_id |-> id, accept |-> acc]
\* The unique_id of a FileOfferResponse command is text: the text of a Uuid,
\* or text that is none.
UuidText(id) == <<"uuid", id>>
BadUuidText == <<"not-a-uuid">>
UuidTexts == {UuidText(id) : id \in TransferIds} \cup {BadUuidText}
\* file_offer_response.unique_id.parse::<Uuid>()
ParseUuid(str) ==
    IF Len(str) = 2 /\ str[1] = "uuid"
    THEN [ok |-> TRUE, value |-> str[2]]
    ELSE [ok |-> FALSE, value |-> NoneV]
CancelFileTransferCmd(id) == [type |-> "CancelFileTransfer", unique_id |-> id]
FrontendReadyCmd == [type |-> "FrontendReady"]
ShutdownCmd == [type |-> "Shutdown"]
StartCmd == [type |-> "Start"]
RestartCmd == [type |-> "Restart"]

\* Arms of handle_frontend_event that are todo!() in frontend_manager.rs while
\* frontend_handlers/ holds a handler for the command: the router either
\* panics at the arm or runs that handler.
TodoArms == {"ConnectRequest", "DisconnectRequest", "TransmitFile", "FileOfferResponse",
             "CancelFileTransfer"}
\* Where the router continues for a command it has received.
EntryOf(c) ==
    CASE c.type = "ConnectRequest" -> "connect"
      [] c.type = "DisconnectRequest" -> "disconnect"
      [] c.type = "ConnectionRequestResponse" -> "connection_request_response"
      [] c.type = "TransmitFile" -> "transmit_file"
      [] c.type = "FileOfferResponse" -> "file_offer_response"
      [] c.type = "FrontendReady" -> "frontend_ready"
      [] c.type = "Shutdown" -> "shutdown"
      [] c.type = "Start" -> "start"
      [] c.type = "Restart" -> "shutdown"
      [] OTHER -> "panicked"

\* ------------------------------------------------------------ router task
rtRest == <<sess, rd, wr, framesLeft>>
SetRt(n, pc) == router' = [router EXCEPT ![n].pc = pc]
RtLock(n) == peersLock' = [peersLock EXCEPT ![n] = Rt(n)]
RtEmit(n, e) == events' = [events EXCEPT ![n] = Append(@, e)]
\* handle_frontend_event returns: the router is back at frontend_event_rx.recv().
RtReturn(n) ==
    /\ router' = [router EXCEPT ![n] = [IdleRouter EXCEPT !.pc = "idle"]]
    /\ peersLock' = Release(peersLock, n, Rt(n))
    /\ transfersLock' = Release(transfersLock, n, Rt(n))
\* A panic unwinds the router task and drops the guards it holds.
RtPanic(n) ==
    /\ router' = [router EXCEPT ![n] = [IdleRouter EXCEPT !.pc = "panicked"]]
    /\ peersLock' = Release(peersLock, n, Rt(n))
    /\ transfersLock' = Release(transfersLock, n, Rt(n))
\* The router calls drop_peer(addr, m).  Every call site is inside a scope
\* that holds the registry guard, so the lock() inside drop_peer never succeeds.
RtCallDrop(n, m) == router' = [router EXCEPT ![n] = [@ EXCEPT !.pc = "drop_peer", !.drop = m]]

\* An await_frontend_ready that also takes Start, the other command that
\* carries a BackendStartupConfig.
FirstCommandOkOrStart(c) == c.type \in {"FrontendReady", "Start"}
\* Some(FrontendEvent::FrontendReady(BackendStartupConfig { bind_addr }))
FirstCommandOk(c) == c.type = "FrontendReady"
\* await_frontend_ready on the first command c, then for FrontendReady
\* verify_mpsc_channel and FrontendManager::start: BackendReady is sent and
\* the task running PeerManager::start is spawned.  For another command
\* BackendFatal is sent and init returns: nothing is created or spawned.
await_frontend_ready(n, c) ==
    /\ router[n].pc = "await_ready"
    /\ IF FirstCommandOk(c)
       THEN /\ RtEmit(n, BackendReady)
            /\ accept' = [accept EXCEPT ![n].spawned = @ + 1]
            /\ router' = [router EXCEPT ![n] = [@ EXCEPT !.pc = "idle", !.cmd = c]]
       ELSE /\ RtEmit(n, BackendFatal)
            /\ UNCHANGED accept
            /\ router' = [router EXCEPT ![n] = [@ EXCEPT !.pc = "returned", !.cmd = c]]
    /\ UNCHANGED <<active_peers, active_transfers, shutdown_tx, lockVars, cmdsLeft, notified>>
    /\ UNCHANGED rtRest

\* frontend_event_rx.recv() returns None: the UI has dropped its Sender and
\* the channel is empty.  await_frontend_ready logs and returns None, and init
\* returns; in FrontendManager::start the `while let` ends and the `loop`
\* around it starts it again, for ever ("closed_loop"): recv() is ready with
\* None each time.  Neither sends anything on backend_event_tx.
frontend_event_rx_closed(n) ==
    /\ router[n].pc \in {"await_ready", "idle"}
    /\ router' = [router EXCEPT ![n].pc = IF @ = "await_ready" THEN "returned"
                                          ELSE "closed_loop"]
    /\ UNCHANGED <<active_peers, active_transfers, lockVars, lifeVars, events, cmdsLeft>>
    /\ UNCHANGED rtRest

\* frontend_event_rx.recv() and the match of handle_frontend_event.
handle_frontend_event(n, c, todo) ==
    /\ router[n].pc = "idle"
    /\ cmdsLeft[n] > 0
    /\ todo => c.type \in TodoArms
    /\ (c.type = "CancelFileTransfer") => todo
    /\ cmdsLeft' = [cmdsLeft EXCEPT ![n] = @ - 1]
    /\ router' = [router EXCEPT ![n] =
           IF todo THEN [@ EXCEPT !.pc = "panicked"]
           ELSE [@ EXCEPT !.pc = EntryOf(c), !.cmd = c]]
    /\ UNCHANGED <<active_peers, active_transfers, lockVars, lifeVars, events>>
    /\ UNCHANGED rtRest

\* handle_frontend_ready: complain and ignore.
handle_frontend_ready(n) ==
    /\ router[n].pc = "frontend_ready"
    /\ RtEmit(n, BadFrontendEvent(FrontendReadyCmd, "Backend is already running"))
    /\ RtReturn(n)
    /\ UNCHANGED <<active_peers, active_transfers, lifeVars, cmdsLeft>> /\ UNCHANGED rtRest

\* peer.tx.send(m).await by the router, awaited under the registry guard.
\* onErr: "panic" (expect), "ignore" (.ok()) or a reason passed to drop_peer.
RtSendTo(n, t, m, onErr, next) ==
    /\ SendReady(t)
    /\ IF RxClosed(t)
       THEN /\ UNCHANGED sess
            /\ IF onErr = "panic" THEN RtPanic(n)
               ELSE IF onErr = "ignore" THEN SetRt(n, next) /\ UNCHANGED lockVars
               ELSE RtCallDrop(n, onErr) /\ UNCHANGED lockVars
       ELSE /\ sess' = Enqueue(sess, t, m)
            /\ IF next = "return" THEN RtReturn(n) ELSE SetRt(n, next) /\ UNCHANGED lockVars

\* handle_connection_request_response (UI command).
handle_connection_request_response(n) ==
    LET c == router[n].cmd
        p == active_peers[n][c.ip]
    IN  /\ router[n].pc = "connection_request_response"
        /\ peersLock[n] = NoTask
        /\ IF p = NoPeer
           THEN /\ RtEmit(n, BadFrontendEvent(c, "Peer does not exist"))
                /\ RtReturn(n)
                /\ UNCHANGED active_peers
           ELSE /\ UNCHANGED events
                /\ IF p.state = "Connected"
                   THEN IF p.peer_info = NoneV
                        THEN RtPanic(n) /\ UNCHANGED active_peers
                        ELSE /\ active_peers' = [active_peers EXCEPT ![n][c.ip] =
                                  IF c.accept THEN [p EXCEPT !.state = "Authenticated"]
                                  ELSE [p EXCEPT !.state = "Disconnecting",
                                                 !.reason = IF c.message = NoneV
                                                            THEN "Connection rejected by the user"
                                                            ELSE c.message]]
                             /\ SetRt(n, "connection_request_response_send")
                             /\ RtLock(n) /\ UNCHANGED transfersLock
                   ELSE /\ UNCHANGED active_peers
                        /\ IF c.accept
                           THEN RtReturn(n)
                           ELSE /\ RtCallDrop(n, "Peer is not in the connecting state")
                                /\ RtLock(n) /\ UNCHANGED transfersLock
        /\ UNCHANGED <<active_transfers, lifeVars, cmdsLeft>> /\ UNCHANGED rtRest
handle_connection_request_response_send(n) ==
    LET c == router[n].cmd
    IN  /\ router[n].pc = "connection_request_response_send"
        /\ RtSendTo(n, active_peers[n][c.ip].sid,
                    IF c.accept THEN ConnectResponsePermit(SelfName, c.message)
                    ELSE ConnectResponseDeny(c.message), "panic", "return")
        /\ UNCHANGED <<active_peers, active_transfers, lifeVars, events, cmdsLeft, rd, wr,
                       framesLeft>>

\* FrontendManager::handle_disconnect_request (UI command Disconnect).
frontend_handle_disconnect_request(n) ==
    LET c == router[n].cmd
    IN  /\ router[n].pc = "disconnect"
        /\ peersLock[n] = NoTask
        /\ IF active_peers[n][c.ip] = NoPeer
           THEN RtEmit(n, BadFrontendEvent(c, "Peer is not connected")) /\ RtReturn(n)
           ELSE /\ SetRt(n, "disconnect_send")
                /\ RtLock(n)
                /\ UNCHANGED <<transfersLock, events>>
        /\ UNCHANGED <<active_peers, active_transfers, lifeVars, cmdsLeft>> /\ UNCHANGED rtRest
\* The send and, when it succeeds, the state change to Disconnecting.
frontend_handle_disconnect_request_send(n) ==
    LET c == router[n].cmd
        p == active_peers[n][c.ip]
    IN  /\ router[n].pc = "disconnect_send"
        /\ SendReady(p.sid)
        /\ IF RxClosed(p.sid)
           THEN /\ RtCallDrop(n, "Failed to send DisconnectRequest message to the peer")
                /\ UNCHANGED <<active_peers, sess, lockVars>>
           ELSE /\ sess' = Enqueue(sess, p.sid, DisconnectRequestMsg(c.message))
                /\ IF p.state = "Connected" /\ p.peer_info = NoneV
                   THEN /\ RtCallDrop(n, PeerInfoNotSet)
                        /\ UNCHANGED <<active_peers, lockVars>>
                   ELSE IF p.state = "Disconnecting"
                   THEN /\ RtCallDrop(n, "Peer is not connected")
                        /\ UNCHANGED <<active_peers, lockVars>>
                   ELSE /\ active_peers' = [active_peers EXCEPT ![n][c.ip] =
                                [p EXCEPT !.state = "Disconnecting", !.reason = c.message]]
                        /\ RtReturn(n)
        /\ UNCHANGED <<active_transfers, lifeVars, events, cmdsLeft, rd, wr, framesLeft>>

\* ------------------------------------------------------------ connections
\* A node that runs this engine (the other kind of peer is an arbitrary
\* program on the far side of the socket).
Engine(n) == n \in Nodes /\ router[n].pc # "none"
FreeSids == {s \in Sids : sess[s].st = "free"}
\* Connections opened so far (a linked pair of sessions is one connection).
ConnsOpened == Cardinality({s \in Sids : sess[s].st # "free" /\ sess[s].link < s})
CanOpen == ConnsOpened < MaxConns
FirstFree(S) == CHOOSE s \in S : \A t \in S : s <= t
NewSess(n, a, st, l) == [FreeSess EXCEPT !.st = st, !.node = n, !.addr = a, !.link = l]
\* TcpStream::connect(peer_addr) succeeded: the local end is handed to a
\* spawned handle_connection; when the remote is an engine its end waits in
\* the listener's backlog.
Connected(ss, n, a) ==
    LET s == FirstFree(FreeSids)
        t == FirstFree(FreeSids \ {s})
    IN  IF Engine(a)
        THEN [ss EXCEPT ![s] = NewSess(n, a, "pending", t), ![t] = NewSess(a, n, "backlog", s)]
        ELSE [ss EXCEPT ![s] = NewSess(n, a, "pending", 0)]

\* A connect() that does not look at the shutdown signal.
ConnectAllowedUnlessConnected(n, a) == active_peers[n][a] = NoPeer
\* The two checks of connect(): shutdown_tx is Some, and the address is not
\* a key of active_peers.
ConnectAllowed(n, a) == shutdown_tx[n] /\ active_peers[n][a] = NoPeer
\* FrontendManager::handle_connect_request up to the end of connect(): the
\* engine must be running, the address must not be registered, and the TCP
\* connect succeeds (ok) or fails; conns is the number of connections the
\* run may open.
frontend_handle_connect_request(n, ok, conns) ==
    LET c == router[n].cmd
    IN  /\ router[n].pc = "connect"
        /\ IF ~ParseSocketAddr(c.ip).ok
           THEN /\ ~ok
                /\ RtEmit(n, BadFrontendEvent(c, "Invalid IP address"))
                /\ RtReturn(n)
                /\ UNCHANGED sess
           ELSE /\ peersLock[n] = NoTask
                /\ ok => (ConnsOpened < conns /\ FreeSids # {})
                /\ Engine(c.ip) => (ok <=> accept[c.ip].st = "listening")
                /\ IF ConnectAllowed(n, c.ip) /\ ok
                   THEN /\ sess' = Connected(sess, n, c.ip)
                        /\ SetRt(n, "connect_poll")
                        /\ UNCHANGED <<events, lockVars>>
                   ELSE /\ RtEmit(n, BadFrontendEvent(c, "Failed to connect to the peer"))
                        /\ RtReturn(n)
                        /\ UNCHANGED sess
        /\ UNCHANGED <<active_peers, active_transfers, lifeVars, cmdsLeft, rd, wr, framesLeft>>
\* The retry loop: for _ in 0..20, look the peer up under the registry guard;
\* a miss sleeps 500 ms with the guard and releases it at the end of the
\* iteration.
ConnectPolls == 20
\* A loop that makes one attempt more than 0..20 has.
LastPollLate(polls) == polls >= ConnectPolls
\* for _ in 0..20: the attempt after polls misses is the last one.
LastPoll(polls) == polls + 1 >= ConnectPolls
frontend_handle_connect_request_poll(n) ==
    LET c == router[n].cmd
    IN  /\ router[n].pc = "connect_poll"
        /\ peersLock[n] = NoTask
        /\ IF active_peers[n][c.ip] # NoPeer
           THEN /\ SetRt(n, "connect_send")
                /\ RtLock(n)
                /\ UNCHANGED <<transfersLock, events>>
           ELSE IF ~LastPoll(router[n].polls)
           THEN /\ router' = [router EXCEPT ![n].polls = @ + 1]
                /\ UNCHANGED <<lockVars, events>>
           ELSE /\ RtEmit(n, BadFrontendEvent(c, "Peer not found in the active peers list"))
                /\ RtReturn(n)
        /\ UNCHANGED <<active_peers, active_transfers, lifeVars, cmdsLeft>> /\ UNCHANGED rtRest
frontend_handle_connect_request_send(n) ==
    /\ router[n].pc = "connect_send"
    /\ RtSendTo(n, active_peers[n][router[n].cmd.ip].sid, ConnectRequestMsg(SelfName),
                "panic", "return")
    /\ UNCHANGED <<active_peers, active_transfers, lifeVars, events, cmdsLeft, rd, wr,
                   framesLeft>>

\* handle_transmit_file: open the file (fileOk), draw the Uuid, then the
\* registry guard, the send, and the insert under the transfer-table guard.
\* Uuid::new_v4() is an id no record has: with the ids of the model used up
\* the run ends here.
handle_transmit_file(n, fileOk) ==
    LET c == router[n].cmd
    IN  /\ router[n].pc = "transmit_file"
        /\ fileOk => peersLock[n] = NoTask
        /\ fileOk => active_transfers[n][c.unique_id] = NoTransfer
        /\ IF ~fileOk
           THEN RtEmit(n, BadFrontendEvent(c, "Failed to open file")) /\ RtReturn(n)
           ELSE IF active_peers[n][c.ip] = NoPeer
           THEN RtEmit(n, BadFrontendEvent(c, "Peer is not connected")) /\ RtReturn(n)
           ELSE /\ SetRt(n, "transmit_file_send")
                /\ RtLock(n)
                /\ UNCHANGED <<transfersLock, events>>
        /\ UNCHANGED <<active_peers, active_transfers, lifeVars, cmdsLeft>> /\ UNCHANGED rtRest
handle_transmit_file_send(n) ==
    LET c == router[n].cmd
    IN  /\ router[n].pc = "transmit_file_send"
        /\ RtSendTo(n, active_peers[n][c.ip].sid, FileOfferRequestMsg(c.unique_id),
                    "Failed to send TransmitFile message to the peer", "transmit_file_insert")
        /\ UNCHANGED <<active_peers, active_transfers, lifeVars, events, cmdsLeft, rd, wr,
                       framesLeft>>
handle_transmit_file_insert(n) ==
    LET c == router[n].cmd
    IN  /\ router[n].pc = "transmit_file_insert"
        /\ transfersLock[n] = NoTask
        /\ active_transfers' = [active_transfers EXCEPT ![n][c.unique_id] =
                                    Transfer(c.ip, "Sending", "InProgress")]
        /\ RtReturn(n)
        /\ UNCHANGED <<active_peers, lifeVars, events, cmdsLeft>> /\ UNCHANGED rtRest

\* FrontendManager::handle_file_offer_response (UI command): the
\* transfer-table guard first, then the registry guard, then the send.
frontend_handle_file_offer_response(n) ==
    LET c == router[n].cmd
        unique_id == ParseUuid(c.unique_id)
        t == IF unique_id.ok THEN active_transfers[n][unique_id.value] ELSE NoTransfer
    IN  /\ router[n].pc = "file_offer_response"
        /\ unique_id.ok => transfersLock[n] = NoTask
        /\ IF ~unique_id.ok
           THEN /\ RtEmit(n, BadFrontendEvent(c, "Invalid File Transfer ID (UUID)"))
                /\ RtReturn(n)
                /\ UNCHANGED active_transfers
           ELSE IF t = NoTransfer
           THEN /\ RtEmit(n, BadFrontendEvent(c, "Invalid file transfer ID: ID does not exist."))
                /\ RtReturn(n)
                /\ UNCHANGED active_transfers
           ELSE IF t.direction = "Sending"
           THEN /\ RtEmit(n, BadFrontendEvent(c, "Cannot accept a file offer when sending a file."))
                /\ active_transfers' = [active_transfers EXCEPT
                                            ![n][unique_id.value].status = "Error"]
                /\ RtReturn(n)
           ELSE /\ SetRt(n, "file_offer_response_peers")
                /\ transfersLock' = [transfersLock EXCEPT ![n] = Rt(n)]
                /\ UNCHANGED <<peersLock, events, active_transfers>>
        /\ UNCHANGED <<active_peers, lifeVars, cmdsLeft>> /\ UNCHANGED rtRest
frontend_handle_file_offer_response_peers(n) ==
    LET c == router[n].cmd
        unique_id == ParseUuid(c.unique_id).value
        t == active_transfers[n][unique_id]
    IN  /\ router[n].pc = "file_offer_response_peers"
        /\ peersLock[n] = NoTask
        /\ IF active_peers[n][t.peer] = NoPeer
           THEN /\ active_transfers' = [active_transfers EXCEPT ![n][unique_id] = NoTransfer]
                /\ RtEmit(n, BadFrontendEvent(c, "Peer is not connected"))
                /\ RtReturn(n)
           ELSE /\ SetRt(n, "file_offer_response_send")
                /\ RtLock(n)
                /\ UNCHANGED <<transfersLock, events, active_transfers>>
        /\ UNCHANGED <<active_peers, lifeVars, cmdsLeft>> /\ UNCHANGED rtRest
\* The send, then fs::File::create (createOk) when the offer is accepted.
frontend_handle_file_offer_response_send(n, createOk) ==
    LET c == router[n].cmd
        unique_id == ParseUuid(c.unique_id).value
        t == active_transfers[n][unique_id]
        sid == active_peers[n][t.peer].sid
    IN  /\ router[n].pc = "file_offer_response_send"
        /\ SendReady(sid)
        /\ createOk \/ c.accept
        /\ IF RxClosed(sid)
           THEN RtPanic(n) /\ UNCHANGED <<sess, events, active_transfers>>
           ELSE /\ sess' = Enqueue(sess, sid, FileOfferResponseMsg(unique_id, c.accept))
                /\ RtReturn(n)
                /\ IF c.accept /\ ~createOk
                   THEN /\ RtEmit(n, BadFrontendEvent(c, "Failed to create file handle"))
                        /\ UNCHANGED active_transfers
                   ELSE /\ active_transfers' = [active_transfers EXCEPT ![n][unique_id].status =
                                                    IF c.accept THEN "InProgress" ELSE "Rejected"]
                        /\ UNCHANGED events
        /\ UNCHANGED <<active_peers, lifeVars, cmdsLeft, rd, wr, framesLeft>>

\* ---------------------------------------------------------------- shutdown
\* shutdown() has returned to its caller: Shutdown is done, Restart goes on
\* to its is_running check.
ShutdownReturns(n) ==
    IF router[n].cmd.type = "Restart"
    THEN /\ router' = [router EXCEPT ![n] = [@ EXCEPT !.pc = "start", !.draining = <<>>]]
         /\ peersLock' = Release(peersLock, n, Rt(n))
         /\ UNCHANGED transfersLock
    ELSE RtReturn(n)
\* PeerManager::shutdown: take the signal; without one return at once.
shutdown(n) ==
    /\ router[n].pc = "shutdown"
    /\ IF shutdown_tx[n]
       THEN /\ shutdown_tx' = [shutdown_tx EXCEPT ![n] = FALSE]
            /\ accept' = [accept EXCEPT ![n].signal = TRUE]
            /\ SetRt(n, "shutdown_drain")
            /\ UNCHANGED lockVars
       ELSE /\ ShutdownReturns(n)
            /\ UNCHANGED <<shutdown_tx, accept>>
    /\ UNCHANGED <<active_peers, active_transfers, events, cmdsLeft, notified>>
    /\ UNCHANGED rtRest
\* The Peers active_peers.drain() hands out (a node has one remote address).
Drained(reg) ==
    LET as == {a \in DOMAIN reg : reg[a] # NoPeer}
    IN  IF as = {} THEN <<>>
        ELSE LET a == CHOOSE x \in as : TRUE IN <<[addr |-> a, sid |-> reg[a].sid]>>
\* let mut active_peers = self.active_peers.lock().await; active_peers.drain():
\* the map is emptied, the drained Peers (and their Senders) stay alive while
\* the loop runs, and the guard is held until shutdown returns.
shutdown_drain(n) ==
    /\ router[n].pc = "shutdown_drain"
    /\ peersLock[n] = NoTask
    /\ active_peers' = [active_peers EXCEPT ![n] = [a \in DOMAIN @ |-> NoPeer]]
    /\ IF Drained(active_peers[n]) = <<>>
       THEN ShutdownReturns(n)
       ELSE /\ router' = [router EXCEPT ![n] = [@ EXCEPT !.pc = "shutdown_send",
                                                          !.draining = Drained(active_peers[n])]]
            /\ RtLock(n)
            /\ UNCHANGED transfersLock
    /\ UNCHANGED <<active_transfers, lifeVars, events, cmdsLeft>> /\ UNCHANGED rtRest
\* peer.tx.send(ImmediateConnectionClose).await.ok(), then drop_peer.
shutdown_send(n) ==
    LET d == Head(router[n].draining)
    IN  /\ router[n].pc = "shutdown_send"
        /\ SendReady(d.sid)
        /\ sess' = IF RxClosed(d.sid) THEN sess
                   ELSE Enqueue(sess, d.sid, ImmediateConnectionClose("Peer is shutting down"))
        /\ RtCallDrop(n, NoneV)
        /\ UNCHANGED <<active_peers, active_transfers, lockVars, lifeVars, events, cmdsLeft,
                       rd, wr, framesLeft>>

\* Start, and Restart after its shutdown() and one second of sleep: complain
\* when is_running(), else spawn PeerManager::start and send BackendReady.
handle_start(n) ==
    /\ router[n].pc = "start"
    /\ IF shutdown_tx[n]
       THEN /\ RtEmit(n, BadFrontendEvent(FrontendReadyCmd, "Backend is already running"))
            /\ UNCHANGED accept
       ELSE /\ RtEmit(n, BackendReady)
            /\ accept' = [accept EXCEPT ![n].spawned = @ + 1]
    /\ RtReturn(n)
    /\ UNCHANGED <<active_peers, active_transfers, shutdown_tx, cmdsLeft, notified>>
    /\ UNCHANGED rtRest

\* ------------------------------------------------- PeerManager::start task
acceptRest == <<active_peers, active_transfers, lockVars, rd, wr, router, budgetVars, notified>>
\* TcpListener::bind and the installation of the shutdown signal.  While an
\* earlier listener is still bound the bind fails: start returns Err, the
\* spawned closure clears shutdown_tx (dropping a stored Sender, which the
\* earlier accept loop sees as its signal) and sends BackendFatal.
start_bind(n) ==
    /\ accept[n].spawned > 0
    /\ IF accept[n].st = "listening"
       THEN /\ shutdown_tx' = [shutdown_tx EXCEPT ![n] = FALSE]
            /\ accept' = [accept EXCEPT ![n] = [@ EXCEPT !.spawned = @ - 1,
                                                        !.signal = @ \/ shutdown_tx[n]]]
            /\ events' = [events EXCEPT ![n] = Append(@, BackendFatal)]
       ELSE /\ shutdown_tx' = [shutdown_tx EXCEPT ![n] = TRUE]
            /\ accept' = [accept EXCEPT ![n] = [st |-> "listening", signal |-> FALSE,
                                                spawned |-> @.spawned - 1]]
            /\ UNCHANGED events
    /\ UNCHANGED sess /\ UNCHANGED acceptRest
\* listener.accept() returned a connection: spawn handle_connection for it.
accept_connection(s) ==
    /\ sess[s].st = "backlog"
    /\ accept[sess[s].node].st = "listening"
    /\ sess' = [sess EXCEPT ![s].st = "pending"]
    /\ UNCHANGED <<shutdown_tx, accept, events>> /\ UNCHANGED acceptRest
\* The shutdown arm of the select!: the loop breaks with Ok(()), the listener
\* is dropped (connections still in its backlog are reset) and the closure of
\* start_peer_manager sends BackendShutdown.
accept_shutdown(n) ==
    /\ accept[n].st = "listening"
    /\ accept[n].signal
    /\ accept' = [accept EXCEPT ![n] = [@ EXCEPT !.st = "stopped", !.signal = FALSE]]
    /\ events' = [events EXCEPT ![n] = Append(@, BackendShutdown)]
    /\ sess' = [s \in Sids |->
                  IF sess[s].st = "backlog" /\ sess[s].node = n
                  THEN [sess[s] EXCEPT !.st = "refused"]
                  ELSE IF sess[s].link # 0 /\ sess[sess[s].link].st = "backlog"
                          /\ sess[sess[s].link].node = n
                  THEN [sess[s] EXCEPT !.sock = "reset"]
                  ELSE sess[s]]
    /\ UNCHANGED shutdown_tx /\ UNCHANGED acceptRest

\* ------------------------------------------ the remote peer as a program
\* Frames an arbitrary remote program may write.
PeerMessages ==
    {KeepAlive, DisconnectAck, FileChunk, ConnectRequestMsg(SelfName),
     ConnectResponsePermit(SelfName, NoneV), ConnectResponseDeny("bye"),
     ImmediateConnectionClose("bye"), FileOfferRequestMsg(1)}
    \cup {DisconnectRequestMsg(m) : m \in Texts}
    \cup {FileOfferResponseMsg(1, acc) : acc \in BOOLEAN}
PeerFrames ==
    {WellFormed(m) : m \in PeerMessages}
    \cup {Frame(MAX_MESSAGE_SIZE + 1, Garbage), Frame(MAX_MESSAGE_SIZE, Garbage),
          Frame(EncodedLen(KeepAlive) + 1, KeepAlive)}
\* The remote program opens a connection to the listener of n; connections
\* it had open from the same address are over by then.  conns is the number
\* of connections the run may open.
PeerConnect(n, a, conns) ==
    /\ Engine(n) /\ ~Engine(a)
    /\ accept[n].st = "listening"
    /\ ConnsOpened < conns /\ FreeSids # {}
    /\ sess' = [t \in Sids |->
                  IF t = FirstFree(FreeSids) THEN NewSess(n, a, "backlog", 0)
                  ELSE IF sess[t].st # "free" /\ sess[t].node = n /\ sess[t].addr = a
                          /\ sess[t].sock = "open"
                  THEN [sess[t] EXCEPT !.sock = "reset"]
                  ELSE sess[t]]
    /\ UNCHANGED <<active_peers, active_transfers, lockVars, lifeVars, events, rd, wr, router,
                   budgetVars>>
\* The reader of a connection to a remote program: read_exact delivers the
\* next frame the program chose to write.
read_messages_frame(s, f) ==
    /\ rd[s].pc = "read_len"
    /\ sess[s].link = 0 /\ sess[s].sock = "open" /\ sess[s].inbox = <<>>
    /\ framesLeft > 0
    /\ framesLeft' = framesLeft - 1
    /\ ReadFrame(s, f, <<>>)
    /\ UNCHANGED readRest
\* ... or finds that the program has closed the socket ("closed": EOF, and
\* writes may still succeed) or aborted the connection ("reset").
read_messages_closed(s, how) ==
    /\ rd[s].pc = "read_len"
    /\ sess[s].link = 0 /\ sess[s].sock = "open" /\ sess[s].inbox = <<>>
    /\ sess' = [sess EXCEPT ![s].sock = how]
    /\ ReadFails(s, how)
    /\ UNCHANGED framesLeft /\ UNCHANGED readRest

\* ------------------------------------------------------------ the UI
\* Commands the UI of node n may submit.
Commands(n) ==
    {FrontendReadyCmd, ShutdownCmd, StartCmd, RestartCmd, ConnectRequestCmd(BadAddr)}
    \cup {CancelFileTransferCmd(id) : id \in TransferIds}
    \cup {FileOfferResponseCmd(id, acc) : id \in UuidTexts, acc \in BOOLEAN}
    \cup UNION {{ConnectRequestCmd(a), DisconnectRequestCmd(a, "bye")}
                \cup {TransmitFileCmd(a, id) : id \in TransferIds}
                \cup {ConnectionRequestResponseCmd(a, acc, m) : acc \in BOOLEAN, m \in UITexts}
                : a \in AddrsOf(n)}
\* What must hold for the UI to submit c now: the Uuid a TransmitFile draws
\* is fresh.
Submittable(n, c) ==
    (c.type = "TransmitFile") => active_transfers[n][c.unique_id] = NoTransfer

\* The UI submits c and the router receives it.
UICommand(n, c, todo) == Submittable(n, c) /\ handle_frontend_event(n, c, todo)

\* ------------------------------------------------------------ one engine
InitCommon ==
    /\ active_peers = [n \in Nodes |-> [a \in Addrs \ {n} |-> NoPeer]]
    /\ active_transfers = [n \in Nodes |-> [id \in TransferIds |-> NoTransfer]]
    /\ shutdown_tx = [n \in Nodes |-> FALSE]
    /\ peersLock = [n \in Nodes |-> NoTask]
    /\ transfersLock = [n \in Nodes |-> NoTask]
    /\ events = [n \in Nodes |-> <<>>]
    /\ accept = [n \in Nodes |-> NoAccept]
    /\ sess = [s \in Sids |-> FreeSess]
    /\ rd = [s \in Sids |-> IdleRd]
    /\ wr = [s \in Sids |-> IdleWr]
    /\ notified = [s \in Sids |-> 0]
Init ==
    /\ InitCommon
    /\ router = [n \in Nodes |-> IF n = "A" THEN IdleRouter ELSE NoRouter]
    /\ framesLeft = MaxFrames
    /\ cmdsLeft = [n \in Nodes |-> IF n = "A" THEN MaxCmds ELSE 0]

Next ==
    \/ \E n \in {"A"} : \E c \in Commands(n) : await_frontend_ready(n, c)
    \/ \E n \in {"A"} : \E c \in Commands(n), todo \in BOOLEAN : UICommand(n, c, todo)
    \/ \E n \in {"A"} : frontend_event_rx_closed(n)
    \/ \E n \in {"A"} : handle_frontend_ready(n)
    \/ \E n \in {"A"} : handle_connection_request_response(n)
    \/ \E n \in {"A"} : handle_connection_request_response_send(n)
    \/ \E n \in {"A"} : frontend_handle_disconnect_request(n)
    \/ \E n \in {"A"} : frontend_handle_disconnect_request_send(n)
    \/ \E n \in {"A"}, ok \in BOOLEAN : frontend_handle_connect_request(n, ok, MaxConns)
    \/ \E n \in {"A"} : frontend_handle_connect_request_poll(n)
    \/ \E n \in {"A"} : frontend_handle_connect_request_send(n)
    \/ \E n \in {"A"}, fileOk \in BOOLEAN : handle_transmit_file(n, fileOk)
    \/ \E n \in {"A"} : handle_transmit_file_send(n)
    \/ \E n \in {"A"} : handle_transmit_file_insert(n)
    \/ \E n \in {"A"} : frontend_handle_file_offer_response(n)
    \/ \E n \in {"A"} : frontend_handle_file_offer_response_peers(n)
    \/ \E n \in {"A"}, createOk \in BOOLEAN : frontend_handle_file_offer_response_send(n, createOk)
    \/ \E n \in {"A"} : shutdown(n)
    \/ \E n \in {"A"} : shutdown_drain(n)
    \/ \E n \in {"A"} : shutdown_send(n)
    \/ \E n \in {"A"} : handle_start(n)
    \/ \E n \in {"A"} : start_bind(n)
    \/ \E n \in {"A"} : accept_shutdown(n)
    \/ \E s \in Sids : accept_connection(s)
    \/ \E s \in Sids : handle_connection(s)
    \/ \E s \in Sids : read_messages(s)
    \/ \E s \in Sids, f \in PeerFrames : read_messages_frame(s, f)
    \/ \E s \in Sids, how \in {"closed", "reset"} : read_messages_closed(s, how)
    \/ \E s \in Sids : reader_drop_peer(s)
    \/ \E s \in Sids : handle_keep_alive(s)
    \/ \E s \in Sids : handle_keep_alive_send(s)
    \/ \E s \in Sids : handle_connect_request(s)
    \/ \E s \in Sids : handle_connect_request_store(s)
    \/ \E s \in Sids : handle_connect_request_lock(s)
    \/ \E s \in Sids : handle_connect_request_send(s)
    \/ \E s \in Sids : handle_connect_response(s)
    \/ \E s \in Sids : handle_connect_response_send(s)
    \/ \E s \in Sids : handle_disconnect_request(s)
    \/ \E s \in Sids : handle_disconnect_request_send(s)
    \/ \E s \in Sids : handle_disconnect_ack(s)
    \/ \E s \in Sids : handle_immediate_connection_close(s)
    \/ \E s \in Sids : handle_file_offer_request(s)
    \/ \E s \in Sids : handle_file_offer_request_insert(s)
    \/ \E s \in Sids : handle_file_offer_response(s)
    \/ \E s \in Sids, fileOk \in BOOLEAN : handle_file_offer_response_update(s, fileOk)
    \/ \E s \in Sids : writer_recv(s)
    \/ \E s \in Sids, ok \in BOOLEAN : writer_write(s, ok)
    \/ \E s \in Sids : writer_drop_peer(s)
    \/ \E n \in {"A"} : \E a \in AddrsOf(n) : PeerConnect(n, a, MaxConns)
Spec == Init /\ [][Next]_vars

\* ------------------------------------------------------------ two engines
\* A opens the connection; the UIs use the commands of the handshake, the
\* close and the shutdown.
PairCommands(n) ==
    IF n = "A"
    THEN {ConnectRequestCmd("B"), ConnectRequestCmd(BadAddr), DisconnectRequestCmd("B", "bye"),
          ConnectionRequestResponseCmd("B", TRUE, NoneV), ShutdownCmd}
    ELSE {ConnectionRequestResponseCmd("A", TRUE, NoneV),
          ConnectionRequestResponseCmd("A", FALSE, "bye"), ShutdownCmd}
\* What the UI of n may send first.
FirstCommands(n) == {FrontendReadyCmd, StartCmd}
InitPair ==
    /\ InitCommon
    /\ router = [n \in Nodes |-> IdleRouter]
    /\ framesLeft = 0
    /\ cmdsLeft = [n \in Nodes |-> IF n = "A" THEN MaxPairCmds ELSE MaxPairCmds - 1]

\* The steps of the router task of n other than receiving a command.
RouterStep(n) ==
    \/ \E c \in FirstCommands(n) : await_frontend_ready(n, c)
    \/ handle_connection_request_response(n)
    \/ handle_connection_request_response_send(n)
    \/ frontend_handle_disconnect_request(n)
    \/ frontend_handle_disconnect_request_send(n)
    \/ \E ok \in BOOLEAN : frontend_handle_connect_request(n, ok, MaxConns)
    \/ frontend_handle_connect_request_poll(n)
    \/ frontend_handle_connect_request_send(n)
    \/ shutdown(n)
    \/ shutdown_drain(n)
    \/ shutdown_send(n)
\* The steps of the reader task of session s.
ReaderStep(s) ==
    \/ read_messages(s)
    \/ reader_drop_peer(s)
    \/ handle_keep_alive(s)
    \/ handle_keep_alive_send(s)
    \/ handle_connect_request(s)
    \/ handle_connect_request_store(s)
    \/ handle_connect_request_lock(s)
    \/ handle_connect_request_send(s)
    \/ handle_connect_response(s)
    \/ handle_connect_response_send(s)
    \/ handle_disconnect_request(s)
    \/ handle_disconnect_request_send(s)
    \/ handle_disconnect_ack(s)
    \/ handle_immediate_connection_close(s)
\* The steps of the writer task of session s.
WriterStep(s) ==
    \/ writer_recv(s)
    \/ \E ok \in BOOLEAN : writer_write(s, ok)
    \/ writer_drop_peer(s)

NextPair ==
    \/ \E n \in Nodes : \E c \in FirstCommands(n) : await_frontend_ready(n, c)
    \/ \E n \in Nodes : \E c \in PairCommands(n), todo \in BOOLEAN : UICommand(n, c, todo)
    \/ \E n \in Nodes : handle_connection_request_response(n)
    \/ \E n \in Nodes : handle_connection_request_response_send(n)
    \/ \E n \in Nodes : frontend_handle_disconnect_request(n)
    \/ \E n \in Nodes : frontend_handle_disconnect_request_send(n)
    \/ \E n \in Nodes, ok \in BOOLEAN : frontend_handle_connect_request(n, ok, MaxConns)
    \/ \E n \in Nodes : frontend_handle_connect_request_poll(n)
    \/ \E n \in Nodes : frontend_handle_connect_request_send(n)
    \/ \E n \in Nodes : shutdown(n)
    \/ \E n \in Nodes : shutdown_drain(n)
    \/ \E n \in Nodes : shutdown_send(n)
    \/ \E n \in Nodes : start_bind(n)
    \/ \E n \in Nodes : accept_shutdown(n)
    \/ \E s \in Sids : accept_connection(s)
    \/ \E s \in Sids : handle_connection(s)
    \/ \E s \in Sids : read_messages(s)
    \/ \E s \in Sids : reader_drop_peer(s)
    \/ \E s \in Sids : handle_keep_alive(s)
    \/ \E s \in Sids : handle_keep_alive_send(s)
    \/ \E s \in Sids : handle_connect_request(s)
    \/ \E s \in Sids : handle_connect_request_store(s)
    \/ \E s \in Sids : handle_connect_request_lock(s)
    \/ \E s \in Sids : handle_connect_request_send(s)
    \/ \E s \in Sids : handle_connect_response(s)
    \/ \E s \in Sids : handle_connect_response_send(s)
    \/ \E s \in Sids : handle_disconnect_request(s)
    \/ \E s \in Sids : handle_disconnect_request_send(s)
    \/ \E s \in Sids : handle_disconnect_ack(s)
    \/ \E s \in Sids : handle_immediate_connection_close(s)
    \/ \E s \in Sids : writer_recv(s)
    \/ \E s \in Sids, ok \in BOOLEAN : writer_write(s, ok)
    \/ \E s \in Sids : writer_drop_peer(s)
\* The tokio scheduler runs every task that can run, and its Mutex and
\* channels wake waiters in order: each task is strongly fair.  The UIs are
\* free to submit commands or not.
FairPair ==
    /\ \A n \in Nodes : SF_vars(RouterStep(n))
    /\ \A n \in Nodes : WF_vars(start_bind(n) \/ accept_shutdown(n))
    /\ \A s \in Sids : WF_vars(accept_connection(s))
    /\ \A s \in Sids : SF_vars(handle_connection(s))
    /\ \A s \in Sids : SF_vars(ReaderStep(s))
    /\ \A s \in Sids : SF_vars(WriterStep(s))
SpecPair == InitPair /\ [][NextPair]_vars /\ FairPair

\* ------------------------------------------- one engine, file transfers
\* The UI admits the peer, offers files and answers offers; the remote
\* program asks for admission and offers a file.
XferCommands(n) ==
    {FileOfferResponseCmd(id, acc) : id \in UuidTexts, acc \in BOOLEAN}
    \cup UNION {{TransmitFileCmd(a, id) : id \in TransferIds}
                \cup {ConnectionRequestResponseCmd(a, acc, NoneV) : acc \in BOOLEAN}
                \cup {DisconnectRequestCmd(a, "bye")}
                : a \in AddrsOf(n)}
XferFrames == {WellFormed(ConnectRequestMsg(SelfName)), WellFormed(FileOfferRequestMsg(1))}
InitXfer ==
    /\ InitCommon
    /\ router = [n \in Nodes |-> IF n = "A" THEN IdleRouter ELSE NoRouter]
    /\ framesLeft = MaxFrames
    /\ cmdsLeft = [n \in Nodes |-> IF n = "A" THEN MaxXferCmds ELSE 0]
NextXfer ==
    \/ \E n \in {"A"} : \E c \in FirstCommands(n) : await_frontend_ready(n, c)
    \/ \E n \in {"A"} : \E c \in XferCommands(n), todo \in BOOLEAN : UICommand(n, c, todo)
    \/ \E n \in {"A"} : handle_connection_request_response(n)
    \/ \E n \in {"A"} : handle_connection_request_response_send(n)
    \/ \E n \in {"A"} : frontend_handle_disconnect_request(n)
    \/ \E n \in {"A"} : frontend_handle_disconnect_request_send(n)
    \/ \E n \in {"A"}, fileOk \in BOOLEAN : handle_transmit_file(n, fileOk)
    \/ \E n \in {"A"} : handle_transmit_file_send(n)
    \/ \E n \in {"A"} : handle_transmit_file_insert(n)
    \/ \E n \in {"A"} : frontend_handle_file_offer_response(n)
    \/ \E n \in {"A"} : frontend_handle_file_offer_response_peers(n)
    \/ \E n \in {"A"}, createOk \in BOOLEAN : frontend_handle_file_offer_response_send(n, createOk)
    \/ \E n \in {"A"} : start_bind(n)
    \/ \E s \in Sids : accept_connection(s)
    \/ \E s \in Sids : handle_connection(s)
    \/ \E s \in Sids : read_messages(s)
    \/ \E s \in Sids, f \in XferFrames : read_messages_frame(s, f)
    \/ \E s \in Sids, how \in {"closed", "reset"} : read_messages_closed(s, how)
    \/ \E s \in Sids : reader_drop_peer(s)
    \/ \E s \in Sids : handle_connect_request(s)
    \/ \E s \in Sids : handle_connect_request_store(s)
    \/ \E s \in Sids : handle_connect_request_lock(s)
    \/ \E s \in Sids : handle_connect_request_send(s)
    \/ \E s \in Sids : handle_file_offer_request(s)
    \/ \E s \in Sids : handle_file_offer_request_insert(s)
    \/ \E s \in Sids : writer_recv(s)
    \/ \E s \in Sids, ok \in BOOLEAN : writer_write(s, ok)
    \/ \E s \in Sids : writer_drop_peer(s)
    \/ \E n \in {"A"} : \E a \in AddrsOf(n) : PeerConnect(n, a, MaxConns)
SpecXfer == InitXfer /\ [][NextXfer]_vars

\* ------------------------------------------- one engine that reconnects
\* The UI of A connects to the remote program B more than once; the program
\* answers with DisconnectAck and closes connections when it likes.  A run
\* opens as many connections as there are sessions.
MaxReconnCmds == 2
ReconnFrames == {WellFormed(DisconnectAck)}
InitReconn ==
    /\ InitCommon
    /\ router = [n \in Nodes |-> IF n = "A" THEN IdleRouter ELSE NoRouter]
    /\ framesLeft = MaxFrames
    /\ cmdsLeft = [n \in Nodes |-> IF n = "A" THEN MaxReconnCmds ELSE 0]
NextReconn ==
    \/ \E n \in {"A"} : \E c \in FirstCommands(n) : await_frontend_ready(n, c)
    \/ \E n \in {"A"} : \E todo \in BOOLEAN : UICommand(n, ConnectRequestCmd("B"), todo)
    \/ \E n \in {"A"}, ok \in BOOLEAN :
            frontend_handle_connect_request(n, ok, Cardinality(Sids))
    \/ \E n \in {"A"} : frontend_handle_connect_request_poll(n)
    \/ \E n \in {"A"} : frontend_handle_connect_request_send(n)
    \/ \E n \in {"A"} : start_bind(n)
    \/ \E s \in Sids : handle_connection(s)
    \/ \E s \in Sids, f \in ReconnFrames : read_messages_frame(s, f)
    \/ \E s \in Sids, how \in {"closed", "reset"} : read_messages_closed(s, how)
    \/ \E s \in Sids : reader_drop_peer(s)
    \/ \E s \in Sids : handle_disconnect_ack(s)
    \/ \E s \in Sids : writer_recv(s)
    \/ \E s \in Sids, ok \in BOOLEAN : writer_write(s, ok)
    \/ \E s \in Sids : writer_drop_peer(s)
SpecReconn == InitReconn /\ [][NextReconn]_vars

\* ------------------------------------------- one engine, two remote peers
\* Remote programs at B and at C connect to A, are admitted by the
\* ConnectResponse(Permit) they send, and answer file offers; the UI of A
\* offers a file.
MaxOfferCmds == 1
OfferFrames ==
    {WellFormed(ConnectResponsePermit(SelfName, NoneV))}
    \cup {WellFormed(FileOfferResponseMsg(id, acc)) : id \in TransferIds, acc \in BOOLEAN}
InitOffer ==
    /\ InitCommon
    /\ router = [n \in Nodes |-> IF n = "A" THEN IdleRouter ELSE NoRouter]
    /\ framesLeft = MaxFrames
    /\ cmdsLeft = [n \in Nodes |-> IF n = "A" THEN MaxOfferCmds ELSE 0]
NextOffer ==
    \/ \E n \in {"A"} : \E c \in FirstCommands(n) : await_frontend_ready(n, c)
    \/ \E n \in {"A"} : \E a \in Addrs \ {n}, id \in TransferIds, todo \in BOOLEAN :
            UICommand(n, TransmitFileCmd(a, id), todo)
    \/ \E n \in {"A"}, fileOk \in BOOLEAN : handle_transmit_file(n, fileOk)
    \/ \E n \in {"A"} : handle_transmit_file_send(n)
    \/ \E n \in {"A"} : handle_transmit_file_insert(n)
    \/ \E n \in {"A"} : start_bind(n)
    \/ \E n \in {"A"} : \E a \in Addrs \ {n} : PeerConnect(n, a, Cardinality(Sids))
    \/ \E s \in Sids : accept_connection(s)
    \/ \E s \in Sids : handle_connection(s)
    \/ \E s \in Sids, f \in OfferFrames : read_messages_frame(s, f)
    \/ \E s \in Sids, how \in {"closed", "reset"} : read_messages_closed(s, how)
    \/ \E s \in Sids : reader_drop_peer(s)
    \/ \E s \in Sids : handle_connect_response(s)
    \/ \E s \in Sids : handle_file_offer_response(s)
    \/ \E s \in Sids, fileOk \in BOOLEAN : handle_file_offer_response_update(s, fileOk)
    \/ \E s \in Sids : writer_recv(s)
    \/ \E s \in Sids, ok \in BOOLEAN : writer_write(s, ok)
    \/ \E s \in Sids : writer_drop_peer(s)
SpecOffer == InitOffer /\ [][NextOffer]_vars

\* ================================================================ properties
Registered(s) == sess[s].st = "live" /\ active_peers[sess[s].node][sess[s].addr].sid = s
\* A reader or writer leaves drop_peer in this step.
ReaderDrops(s) == rd[s].pc = "drop_peer" /\ rd'[s].pc # "drop_peer"
WriterDrops(s) == wr[s].pc = "drop_peer" /\ wr'[s].pc # "drop_peer"
Has(n, e) == \E i \in 1..Len(events[n]) : events[n][i] = e
CountOf(n, types) == Cardinality({i \in 1..Len(events[n]) : events[n][i].type \in types})

\* What a call drop_peer(a, m) at node n must do.
DropPeerContract(n, a, m) ==
    LET p == active_peers[n][a]
    IN  /\ active_peers'[n][a] = NoPeer
        /\ (p = NoPeer) => (active_peers' = active_peers /\ events' = events)
        /\ (p.state = "Connected") => events' = events
        /\ (p.state = "Authenticated") =>
               events'[n] = Append(events[n], ConnectionBroken(a, p.peer_info, m))
        /\ (p.state = "Disconnecting") =>
               events'[n] = Append(events[n], ConnectionClose(a, p.peer_info,
                                                  IF m # NoneV THEN m ELSE p.reason))
\* C1: drop_peer(address, override_reason) removes the peer from the registry
\* and emits exactly the notification fixed by the removed peer's state:
\* ConnectionBroken(identity, override_reason) if it was Authenticated,
\* ConnectionClose(identity, override_reason or else the stored reason) if it
\* was Disconnecting, nothing if it was Connected; for an address that is not
\* registered it emits nothing and changes nothing.
C1_DropPeerContract ==
    [][\A s \in Sids :
          /\ ReaderDrops(s) => DropPeerContract(sess[s].node, sess[s].addr, rd[s].drop)
          /\ WriterDrops(s) => DropPeerContract(sess[s].node, sess[s].addr, wr[s].drop)]_vars
\* drop_peer has removed a Disconnecting peer without an override reason and
\* the UI has the ConnectionClose with the stored reason.
C1_Witness ==
    \E s \in Sids :
        /\ rd[s].pc = "read_len" /\ sess[s].st = "live" /\ ~Registered(s)
        /\ events["A"] # <<>>
        /\ events["A"][Len(events["A"])] = ConnectionClose("B", SelfName, "bye")

\* C2: for one session, however the reader, the writer, the handlers and the
\* shutdown interleave their drop_peer calls, at most one ConnectionClose or
\* ConnectionBroken is sent to the UI.
C2_AtMostOneNotification == \A s \in Sids : notified[s] <= 1
\* The reader and the writer of a session have both ended through drop_peer
\* and the UI has one notification for it.
C2_Witness ==
    \E s \in Sids :
        /\ notified[s] = 1
        /\ rd[s].pc = "ended"
        /\ wr[s].pc = "ended" /\ wr[s].drop = WriteFailed

\* C3: a session is in the registry only while its reader task and its
\* writer task are live.
C3_RegisteredIffTasksLive ==
    \A s \in Sids : Registered(s) => (~Gone(rd[s].pc) /\ ~Gone(wr[s].pc))

\* The states of the two-engine scenarios.
BothAuthenticated ==
    /\ active_peers["A"]["B"].state = "Authenticated"
    /\ active_peers["B"]["A"].state = "Authenticated"
BothGone == active_peers["A"]["B"] = NoPeer /\ active_peers["B"]["A"] = NoPeer
RouterAt(n, pc, c) == router[n].pc = pc /\ router[n].cmd = c
\* A has connected to B, B has A's ConnectRequest, and the UI of each side
\* has issued its ConnectionRequestResponse(accept = true).
BothAccept ==
    /\ active_peers["A"]["B"] # NoPeer
    /\ active_peers["B"]["A"].state = "Connected" /\ active_peers["B"]["A"].peer_info # NoneV
    /\ RouterAt("A", "connection_request_response", ConnectionRequestResponseCmd("B", TRUE, NoneV))
    /\ RouterAt("B", "connection_request_response", ConnectionRequestResponseCmd("A", TRUE, NoneV))
BothAccepted ==
    /\ BothAuthenticated
    /\ Has("A", ConnectionRequestResponseEv("B", TRUE, NoneV))
    /\ Has("B", ConnectionRequestResponseEv("A", TRUE, NoneV))
\* C4: after A has connected to B and the UIs of both sides have issued
\* ConnectionRequestResponse(accept = true), both sides come to hold the peer
\* as Authenticated and each UI has received
\* ConnectionRequestResponse(accept = true).
C4_HandshakeAccept == BothAccept ~> BothAccepted

\* The UI of A has issued Disconnect(B, "bye") between Authenticated peers.
IdleCloseIssued ==
    /\ BothAuthenticated
    /\ RouterAt("A", "disconnect", DisconnectRequestCmd("B", "bye"))
IdleClosed ==
    /\ BothGone
    /\ \A n \in Nodes : /\ CountOf(n, {"ConnectionClose"}) = 1
                        /\ CountOf(n, {"ConnectionBroken"}) = 0
\* C5: with A and B mutually Authenticated, after the UI of A issues
\* Disconnect(B, "bye") both registries come to no longer hold the session and
\* each UI has received exactly one ConnectionClose and no ConnectionBroken.
C5_IdleClose == IdleCloseIssued ~> IdleClosed

\* The UI of B has issued ConnectionRequestResponse(accept = false, "bye")
\* for the peer A, which is Connected(info).
RejectIssued ==
    /\ active_peers["A"]["B"] # NoPeer
    /\ active_peers["B"]["A"].state = "Connected" /\ active_peers["B"]["A"].peer_info # NoneV
    /\ RouterAt("B", "connection_request_response", ConnectionRequestResponseCmd("A", FALSE, "bye"))
Rejected ==
    /\ BothGone
    /\ Has("A", ConnectionRequestResponseEv("B", FALSE, "bye"))
\* The UI of A has issued its Connect and nothing else.
OnlyConnected == cmdsLeft["A"] = MaxPairCmds - 1 /\ router["A"].pc = "idle"
\* C6: when the UI of B rejects the Connected(info) peer A with message m
\* (and the UI of A issues nothing besides its Connect), A emits
\* ConnectionRequestResponse(accept = false, reason = m) and the session comes
\* to be gone from both registries.
C6_RejectHandshake == (RejectIssued /\ OnlyConnected) ~> (Rejected \/ ~OnlyConnected)

\* The router of A runs Shutdown while the engine is running and the registry
\* holds a session.
ShutdownIssued ==
    /\ RouterAt("A", "shutdown", ShutdownCmd)
    /\ shutdown_tx["A"]
    /\ active_peers["A"]["B"] # NoPeer
ShutdownDone ==
    /\ router["A"].pc = "idle"
    /\ ~shutdown_tx["A"]
    /\ accept["A"].st = "stopped"
    /\ active_peers["A"]["B"] = NoPeer
\* C7: Shutdown issued while the engine is running with sessions in the
\* registry eventually returns, and then the shutdown signal has been taken,
\* the accept loop has been cancelled and the registry is empty.
C7_ShutdownTerminates == ShutdownIssued ~> ShutdownDone

\* The reader holds an oversized header: it is on its way out through
\* drop_peer with the size reason, it has decoded and dispatched nothing, and
\* the payload is still unread; and only a header above MAX_MESSAGE_SIZE is
\* rejected for its size.
OversizeHandled(s) ==
    /\ (rd[s].len > MAX_MESSAGE_SIZE) =>
          /\ rd[s].pc \in {"drop_peer", "ended"}
          /\ rd[s].drop = TooLarge
          /\ rd[s].msg = NoMsg
          /\ sess[s].inbox # <<>> /\ Head(sess[s].inbox).len = rd[s].len
    /\ (rd[s].drop = TooLarge) => rd[s].len > MAX_MESSAGE_SIZE
\* The drop_peer of the size violation: the reader stops, the peer is gone,
\* a Connected peer is dropped silently and an Authenticated one with
\* ConnectionBroken.
OversizeDrop(s) ==
    LET n == sess[s].node
        a == sess[s].addr
        p == active_peers[n][a]
    IN  (ReaderDrops(s) /\ rd[s].drop = TooLarge) =>
          /\ rd'[s].pc = "ended"
          /\ active_peers'[n][a] = NoPeer
          /\ (p.state = "Connected") => events' = events
          /\ (p.state = "Authenticated") =>
                 events'[n] = Append(events[n], ConnectionBroken(a, p.peer_info, TooLarge))
\* C10: a length header L > MAX_MESSAGE_SIZE makes the reader drop the peer
\* with the size-violation reason without reading or dispatching the payload,
\* and stop; the UI gets nothing for a Connected peer and ConnectionBroken for
\* an Authenticated one.  L = MAX_MESSAGE_SIZE is not rejected by the check.
C10_OversizeFrame ==
    /\ [](\A s \in Sids : OversizeHandled(s))
    /\ [][\A s \in Sids : OversizeDrop(s)]_vars
\* The reader of an Authenticated peer has read an oversized header and has
\* stopped; the UI has the ConnectionBroken with the size reason.
C10_Witness ==
    \E s \in Sids :
        /\ rd[s].len > MAX_MESSAGE_SIZE
        /\ rd[s].pc = "ended"
        /\ Has(sess[s].node, ConnectionBroken(sess[s].addr, SelfName, TooLarge))

\* Where tasks wait: for the transfer-table mutex, for the registry mutex,
\* for capacity on an outbox.
ReaderWaitsTransfers(s) == rd[s].pc \in {"file_offer_request_insert", "file_offer_response_update"}
RouterWaitsTransfers(n) == router[n].pc \in {"file_offer_response", "transmit_file_insert"}
ReaderWaitsPeers(s) ==
    rd[s].pc \in {"drop_peer", "keep_alive", "connect_request_store", "connect_request_lock",
                  "connect_response", "disconnect_request", "immediate_connection_close",
                  "file_offer_request", "file_offer_response"}
RouterWaitsPeers(n) ==
    router[n].pc \in {"drop_peer", "connection_request_response", "disconnect", "connect",
                      "connect_poll", "transmit_file", "file_offer_response_peers",
                      "shutdown_drain"}
ReaderSends(s) ==
    rd[s].pc \in {"keep_alive_send", "connect_request_send", "connect_response_send",
                  "disconnect_request_send"}
\* The session whose outbox the router is sending on (0: it is not sending).
RouterSendsTo(n) ==
    LET r == router[n]
    IN  CASE r.pc \in {"connection_request_response_send", "disconnect_send", "connect_send",
                       "transmit_file_send"} -> active_peers[n][r.cmd.ip].sid
          [] r.pc = "file_offer_response_send" ->
                active_peers[n][active_transfers[n][ParseUuid(r.cmd.unique_id).value].peer].sid
          [] r.pc = "shutdown_send" -> Head(r.draining).sid
          [] OTHER -> 0
\* Some task of the node of s holds the registry guard while it waits for
\* capacity on the outbox of s.
SendBlockedUnderGuard(s) ==
    LET n == sess[s].node
    IN  /\ ~SendReady(s)
        /\ \/ peersLock[n] = Rt(n) /\ RouterSendsTo(n) = s
           \/ \E r \in Sids : /\ sess[r].node = n /\ peersLock[n] = Rd(r)
                                /\ ReaderSends(r) /\ MyPeer(r).sid = s
\* One task holds the registry guard and waits for the transfer table while
\* another holds the transfer table and waits for the registry.
CircularWait(n) ==
    \/ \E s \in Sids : /\ sess[s].node = n
                         /\ peersLock[n] = Rd(s) /\ ReaderWaitsTransfers(s)
                         /\ transfersLock[n] = Rt(n) /\ RouterWaitsPeers(n)
    \/ \E s \in Sids : /\ sess[s].node = n
                         /\ peersLock[n] = Rt(n) /\ RouterWaitsTransfers(n)
                         /\ transfersLock[n] = Rd(s) /\ ReaderWaitsPeers(s)

\* C8: handlers that hold both mutexes take the transfer table first and the
\* registry second, so that no two tasks (the router in a FileOfferResponse
\* or TransmitFile command, a reader in an inbound FileOfferRequest or
\* FileOfferResponse) each hold one of the two while waiting for the other.
C8_NoCircularWait == \A n \in Nodes : ~CircularWait(n)

\* C9: no producer waits for capacity on an outbox while it holds the
\* registry mutex, so a writer that has to call drop_peer while its outbox is
\* full still gets the registry mutex.
C9_WriterCanDropPeer ==
    \A s \in Sids : ~(wr[s].pc = "drop_peer" /\ SendBlockedUnderGuard(s))

\* The step in which the writer of s handles the message it has dequeued.
WriterHandles(s) == wr[s].pc = "write" /\ wr'[s] # wr[s]
\* The writer of s has put the frame of its message on the wire.
WriterWrote(s) == wr[s].pc = "write" /\ wr'[s].pc = "recv"
\* For a message whose encoding is too long nothing is written: the socket and
\* what the other end can read are untouched, and the writer is on its way
\* out through drop_peer with the diagnostic.
OversizeNotWritten(s) ==
    (WriterHandles(s) /\ EncodedLen(wr[s].msg) > MAX_MESSAGE_SIZE) =>
        /\ ~WriterWrote(s)
        /\ sess' = sess
        /\ wr'[s].pc = "drop_peer" /\ wr'[s].drop = OversizedSend
ConnectRuns(n) ==
    /\ router[n].pc = "connect" /\ router'[n] # router[n]
    /\ ParseSocketAddr(router[n].cmd.ip).ok
\* Sessions that are an end of a TCP connection.
Opened(ss) == {s \in Sids : ss[s].st # "free"}
\* connect() refused: no connection is opened, the registry is as it was, and
\* the command is answered with BadFrontendEvent.
ConnectRefused(n) ==
    /\ sess' = sess
    /\ active_peers' = active_peers
    /\ events'[n] = Append(events[n], BadFrontendEvent(router[n].cmd, "Failed to connect to the peer"))
    /\ router'[n].pc = "idle"
\* connect() opened a connection: its local end is a new session of n for
\* the address, handed to handle_connection.
ConnectOpened(n) ==
    \E s \in Opened(sess') \ Opened(sess) :
        /\ sess'[s].node = n /\ sess'[s].addr = router[n].cmd.ip
        /\ sess'[s].st = "pending"
        /\ active_peers' = active_peers
\* handle_connection registers a session, accepted or opened alike.
Registers(s) == sess[s].st = "pending" /\ sess'[s].st = "live"
NotStarted(n) ==
    /\ accept[n] = NoAccept
    /\ ~shutdown_tx[n]
    /\ \A a \in AddrsOf(n) : active_peers[n][a] = NoPeer
    /\ \A s \in Sids : sess[s].node # n
\* The step in which init gets the first command.
FirstCommandTaken(n) ==
    router[n].pc = "await_ready" /\ router'[n].pc # "await_ready" /\ router'[n].cmd # NoCmd
\* C13: the engine is started only after the first command received is
\* FrontendReady; for any other first command BackendFatal is emitted, the
\* engine is never started (no listener, no sessions) and no later command is
\* processed.
C13_StartupHandshake ==
    /\ [](\A n \in Nodes : router[n].pc \in {"await_ready", "returned"} => NotStarted(n))
    /\ [][\A n \in Nodes :
            /\ FirstCommandTaken(n) =>
                  IF router'[n].cmd = FrontendReadyCmd
                  THEN /\ router'[n].pc = "idle"
                       /\ events'[n] = <<BackendReady>>
                       /\ accept'[n].spawned = 1
                  ELSE /\ router'[n].pc = "returned"
                       /\ events'[n] = <<BackendFatal>>
                       /\ accept'[n] = NoAccept
            /\ (router[n].pc = "returned") =>
                  /\ router'[n] = router[n]
                  /\ events'[n] = events[n]
                  /\ cmdsLeft'[n] = cmdsLeft[n]]_vars
\* The first command was a Shutdown: init has returned after BackendFatal.
C13_Witness ==
    /\ router["A"].pc = "returned" /\ router["A"].cmd = ShutdownCmd
    /\ events["A"] = <<BackendFatal>>

\* A Start or Shutdown command of n is handled in this step.
StartHandled(n) ==
    router[n].pc = "start" /\ router[n].cmd = StartCmd /\ router'[n].pc # "start"
ShutdownHandled(n) ==
    router[n].pc = "shutdown" /\ router[n].cmd = ShutdownCmd /\ router'[n].pc # "shutdown"
\* The step changes nothing of the engine of n and tells the UI one warning.
WarnedNoOp(n) ==
    /\ shutdown_tx'[n] = shutdown_tx[n]
    /\ accept'[n] = accept[n]
    /\ active_peers'[n] = active_peers[n]
    /\ Len(events'[n]) = Len(events[n]) + 1
    /\ events'[n][Len(events'[n])].type \in {"BadFrontendEvent", "BackendWarning"}
\* C14: a Start while the engine is running (or while an earlier start has
\* not bound its listener yet), and a Shutdown while it is stopped, change
\* neither the engine state nor the accept loop nor the registry and emit one
\* warning notification.
C14_StartShutdownNoOp ==
    [][\A n \in Nodes :
        /\ (StartHandled(n) /\ (shutdown_tx[n] \/ accept[n].spawned > 0)) => WarnedNoOp(n)
        /\ (ShutdownHandled(n) /\ ~shutdown_tx[n]) => WarnedNoOp(n)]_vars
\* The two halves of C14 and its Start-while-running case, one at a time.
C14_ShutdownWhileStopped ==
    [][\A n \in Nodes : (ShutdownHandled(n) /\ ~shutdown_tx[n]) => WarnedNoOp(n)]_vars
C14_SecondStart ==
    [][\A n \in Nodes :
        (StartHandled(n) /\ ~shutdown_tx[n] /\ accept[n].spawned > 0) => WarnedNoOp(n)]_vars
C14_StartWhileRunning ==
    [][\A n \in Nodes : (StartHandled(n) /\ shutdown_tx[n]) => WarnedNoOp(n)]_vars

\* The router of n handles a FileOfferResponse command in this step, and the
\* command is a user-input error: its id is no Uuid, names no record, or
\* names a record of a file this engine sends.
OfferResponseHandled(n) ==
    router[n].pc = "file_offer_response" /\ router'[n].pc # "file_offer_response"
OfferResponseUserError(n) ==
    LET id == ParseUuid(router[n].cmd.unique_id)
    IN  \/ ~id.ok
        \/ active_transfers[n][id.value] = NoTransfer
        \/ active_transfers[n][id.value].direction = "Sending"
\* C15: a FileOfferResponse command that is a user-input error emits
\* BadFrontendEvent carrying the command, enqueues no wire message and leaves
\* every transfer record and every peer's state unchanged.
C15_OfferResponseUserError ==
    [][\A n \in Nodes :
        (OfferResponseHandled(n) /\ OfferResponseUserError(n)) =>
            /\ Len(events'[n]) = Len(events[n]) + 1
            /\ events'[n][Len(events'[n])].type = "BadFrontendEvent"
            /\ events'[n][Len(events'[n])].event = router[n].cmd
            /\ sess' = sess
            /\ active_transfers' = active_transfers
            /\ active_peers' = active_peers]_vars
\* C15 without the change of the record: what the handler does keep.
C15_OfferResponseUserErrorButStatus ==
    [][\A n \in Nodes :
        (OfferResponseHandled(n) /\ OfferResponseUserError(n)) =>
            /\ Len(events'[n]) = Len(events[n]) + 1
            /\ events'[n][Len(events'[n])].type = "BadFrontendEvent"
            /\ events'[n][Len(events'[n])].event = router[n].cmd
            /\ sess' = sess
            /\ \A id \in TransferIds :
                  \/ active_transfers'[n][id] = active_transfers[n][id]
                  \/ /\ active_transfers[n][id].direction = "Sending"
                     /\ active_transfers'[n][id] =
                           [active_transfers[n][id] EXCEPT !.status = "Error"]
            /\ active_peers' = active_peers]_vars

\* The router of n handles a ConnectionRequestResponse command in this step
\* (the lookup and the state change), or sends the ConnectResponse for it.
ResponseHandled(n) ==
    /\ router[n].pc = "connection_request_response"
    /\ router'[n].pc # "connection_request_response"
ResponseSent(n) ==
    /\ router[n].pc = "connection_request_response_send"
    /\ router'[n].pc # "connection_request_response_send"
\* The peer the command names is Connected and has told who it is.
AwaitsResponse(p) == p.state = "Connected" /\ p.peer_info # NoneV
\* The command is refused: the registry is as it was and the router is back
\* at frontend_event_rx.recv().
ResponseRefused(n) == active_peers'[n] = active_peers[n] /\ router'[n].pc = "idle"
\* C16, the absent peer: BadFrontendEvent carrying the command.
C16_AbsentPeer ==
    [][\A n \in Nodes :
        (ResponseHandled(n) /\ active_peers[n][router[n].cmd.ip] = NoPeer) =>
            /\ events'[n] = Append(events[n], BadFrontendEvent(router[n].cmd, "Peer does not exist"))
            /\ ResponseRefused(n)]_vars
\* C16, the peer in Connected with peer_info: Authenticated and one
\* ConnectResponse(Permit), or Disconnecting with the reason and one
\* ConnectResponse(Deny, message).
C16_ConnectedWithInfo ==
    [][\A n \in Nodes :
        LET c == router[n].cmd
            p == active_peers[n][c.ip]
        IN  /\ (ResponseHandled(n) /\ p # NoPeer /\ AwaitsResponse(p)) =>
                  /\ active_peers'[n][c.ip] =
                        IF c.accept THEN [p EXCEPT !.state = "Authenticated"]
                        ELSE [p EXCEPT !.state = "Disconnecting",
                                       !.reason = IF c.message = NoneV
                                                  THEN "Connection rejected by the user"
                                                  ELSE c.message]
                  /\ router'[n].pc = "connection_request_response_send"
            /\ ResponseSent(n) =>
                  /\ sess'[p.sid].outbox =
                        Append(sess[p.sid].outbox,
                               IF c.accept THEN ConnectResponsePermit(SelfName, c.message)
                               ELSE ConnectResponseDeny(c.message))
                  /\ router'[n].pc = "idle"]_vars
\* C16, the peer in another state: refused, state preserved, router running.
C16_OtherState ==
    [][\A n \in Nodes :
        LET p == active_peers[n][router[n].cmd.ip]
        IN  (ResponseHandled(n) /\ p # NoPeer /\ ~AwaitsResponse(p)) => ResponseRefused(n)]_vars
\* C16: the ConnectionRequestResponse command changes a peer's state only
\* when the peer is Connected with peer_info present (accept: Authenticated
\* and exactly one ConnectResponse(Permit); reject: Disconnecting with the
\* message or the default text as reason, and ConnectResponse(Deny, message));
\* for an absent peer it yields BadFrontendEvent; in any other state it is
\* refused, the peer's state is preserved and the router keeps running.
C16_ConnectionRequestResponse ==
    [][\A n \in Nodes :
        LET c == router[n].cmd
            p == active_peers[n][c.ip]
        IN  /\ ResponseHandled(n) =>
                  IF p = NoPeer
                  THEN /\ events'[n] = Append(events[n], BadFrontendEvent(c, "Peer does not exist"))
                       /\ ResponseRefused(n)
                  ELSE IF AwaitsResponse(p)
                  THEN /\ active_peers'[n][c.ip].state =
                             IF c.accept THEN "Authenticated" ELSE "Disconnecting"
                       /\ ~c.accept => active_peers'[n][c.ip].reason =
                                          IF c.message = NoneV
                                          THEN "Connection rejected by the user"
                                          ELSE c.message
                  ELSE ResponseRefused(n)
            /\ ResponseSent(n) =>
                  /\ sess'[p.sid].outbox =
                        Append(sess[p.sid].outbox,
                               IF c.accept THEN ConnectResponsePermit(SelfName, c.message)
                               ELSE ConnectResponseDeny(c.message))
                  /\ router'[n].pc = "idle"]_vars

\* The peer at address a leaves the registry of n in this step (drop_peer, or
\* the drain of Shutdown).
PeerRemoved(n, a) == active_peers[n][a] # NoPeer /\ active_peers'[n][a] = NoPeer
\* C17: after drop_peer or Shutdown has removed a peer from the registry, the
\* transfer table contains no record whose peer is that address.
C17_TransfersDieWithPeer ==
    [][\A n \in Nodes : \A a \in AddrsOf(n) :
        PeerRemoved(n, a) => \A id \in TransferIds : active_transfers'[n][id].peer # a]_vars

\* Statuses of a transfer that is still going on.
NonTerminal == {"WaitingForPeerResponse", "InProgress"}
\* The record id of n is created, or its status changes, in this step, and
\* the status it gets is not terminal.
RecordAdvanced(n, id) ==
    /\ active_transfers'[n][id] # active_transfers[n][id]
    /\ active_transfers'[n][id] # NoTransfer
    /\ active_transfers'[n][id].status \in NonTerminal
\* C18: a transfer record is created or moved to a non-terminal status only
\* while its peer is in the registry in state Authenticated.
C18_TransfersNeedAuthenticated ==
    [][\A n \in Nodes : \A id \in TransferIds :
        RecordAdvanced(n, id) =>
            active_peers'[n][active_transfers'[n][id].peer].state = "Authenticated"]_vars
\* C18 for the records the peer offers and the UI answers: these do change
\* only while the peer is Authenticated or, for the UI's answer, registered.
C18_ReceivingNeedRegistered ==
    [][\A n \in Nodes : \A id \in TransferIds :
        (RecordAdvanced(n, id) /\ active_transfers'[n][id].direction = "Receiving") =>
            active_peers'[n][active_transfers'[n][id].peer] # NoPeer]_vars

\* The reader of s woke up from the delay, found its peer registered and is
\* at peer.tx.send(KeepAlive).await.
KeepAliveSending(s) == rd[s].pc = "keep_alive_send"
\* The reader wakes up and looks the peer up; the reader's send completes.
KeepAliveWakes(s) == rd[s].pc = "keep_alive" /\ rd'[s].pc # "keep_alive"
KeepAliveSent(s) == rd[s].pc = "keep_alive_send" /\ rd'[s].pc # "keep_alive_send"
\* C19, what each step of the handler does: with the peer gone at wake-up
\* nothing is enqueued, nothing is notified and nothing fails; with the peer
\* registered exactly one KeepAlive is enqueued on its outbox.
C19_KeepAliveSteps ==
    [][\A s \in Sids :
        /\ (KeepAliveWakes(s) /\ MyPeer(s) = NoPeer) =>
              /\ sess' = sess /\ events' = events
              /\ rd'[s].pc = "read_len"
        /\ (KeepAliveWakes(s) /\ MyPeer(s) # NoPeer) =>
              /\ sess' = sess /\ events' = events
              /\ rd'[s].pc = "keep_alive_send"
        /\ KeepAliveSent(s) =>
              /\ sess' = Enqueue(sess, MyPeer(s).sid, KeepAlive)
              /\ events' = events
              /\ rd'[s].pc = "read_len"]_vars
\* The send of the reader of s can never complete: the outbox is full, and
\* the writer, its only consumer, waits in drop_peer for the registry guard
\* the reader holds across the send.
KeepAliveStuck(s) ==
    /\ KeepAliveSending(s)
    /\ ~SendReady(MyPeer(s).sid)
    /\ wr[MyPeer(s).sid].pc = "drop_peer"
\* The send of a reader that found its peer registered is completed: with
\* the tasks scheduled fairly, and with the peer keeping to the ping-pong.
C19_KeepAliveCompletes == \A s \in Sids : KeepAliveSending(s) ~> ~KeepAliveSending(s)
\* C19: each KeepAlive received causes, after the delay, exactly one KeepAlive
\* to be enqueued if the peer is still registered at wake-up, and nothing if
\* it was removed: the steps are as above, and the send of a reader that
\* found its peer registered is never left without a way to complete.
C19_KeepAliveAnswered ==
    /\ C19_KeepAliveSteps
    /\ [](\A s \in Sids : ~KeepAliveStuck(s))

\* The router of n finds the command channel closed in this step.
ChannelCloseSeen(n) ==
    /\ router[n].pc \in {"await_ready", "idle"}
    /\ router'[n].pc \in {"returned", "closed_loop"}
    /\ router'[n].cmd = router[n].cmd
\* C20: when the command channel closes, the router emits a fatal
\* notification (BackendFatal or FatalLostComms) and terminates.
C20_ChannelClosed ==
    [][\A n \in Nodes :
        ChannelCloseSeen(n) =>
            /\ Len(events'[n]) = Len(events[n]) + 1
            /\ events'[n][Len(events'[n])].type \in {"BackendFatal", "FatalLostComms"}
            /\ router'[n].pc = "returned"]_vars
\* C20 for the FrontendManager alone: its router terminates.
C20_RouterTerminates ==
    [][\A n \in Nodes :
        (ChannelCloseSeen(n) /\ router[n].pc = "idle") => router'[n].pc = "returned"]_vars

\* The peer of session s after the step.
MyPeerAfter(s) == active_peers'[sess[s].node][sess[s].addr]
\* The reader of s stores the info of a ConnectRequest in this step (the UI
\* has been sent the ConnectRequest notification by then).
ConnectRequestStored(s) ==
    /\ rd[s].pc = "connect_request_store" /\ rd'[s].pc # "connect_request_store"
    /\ MyPeer(s) # NoPeer
\* C21, the Connected half: the info is stored or replaced, the state stays
\* Connected(info) and the UI has been notified.
C21_ConnectRequestWhileConnected ==
    [][\A s \in Sids :
        (ConnectRequestStored(s) /\ MyPeer(s).state = "Connected") =>
            /\ MyPeerAfter(s) = [MyPeer(s) EXCEPT !.peer_info = rd[s].msg.info]
            /\ Has(sess[s].node, ConnectRequestEv(sess[s].addr, rd[s].msg.info))]_vars
\* C21: a ConnectRequest received while the peer is Authenticated or
\* Disconnecting drops the peer and never resets its state to Connected; one
\* received while Connected stores or replaces the peer info, keeps the state
\* Connected(info) and notifies the UI.
C21_ConnectRequest ==
    [][\A s \in Sids :
        ConnectRequestStored(s) =>
            IF MyPeer(s).state = "Connected"
            THEN /\ MyPeerAfter(s) = [MyPeer(s) EXCEPT !.peer_info = rd[s].msg.info]
                 /\ Has(sess[s].node, ConnectRequestEv(sess[s].addr, rd[s].msg.info))
            ELSE /\ MyPeerAfter(s).state # "Connected"
                 /\ rd'[s].pc = "drop_peer"]_vars

\* The reader of s handles a ConnectResponse(Permit) for a registered peer
\* in this step.
PermitHandled(s) ==
    /\ rd[s].pc = "connect_response" /\ rd'[s].pc # "connect_response"
    /\ rd[s].msg.permit = "Permit"
    /\ MyPeer(s) # NoPeer
\* The peer becomes Authenticated and the UI is told that it accepted.
PermitAuthenticates(s) ==
    /\ MyPeerAfter(s).state = "Authenticated"
    /\ events'[sess[s].node] =
          Append(events[sess[s].node], ConnectionRequestResponseEv(sess[s].addr, TRUE, NoneV))
\* The reader goes to drop_peer; the message authenticates nobody.
PermitDrops(s) ==
    /\ rd'[s].pc = "drop_peer"
    /\ MyPeerAfter(s) = MyPeer(s)
    /\ events' = events
\* C22, the states in which the handler does what the claim says: Connected
\* with peer_info, Authenticated and Disconnecting.
C22_PermitButConnectedWithoutInfo ==
    [][\A s \in Sids :
        (PermitHandled(s) /\ ~(MyPeer(s).state = "Connected" /\ MyPeer(s).peer_info = NoneV)) =>
            IF MyPeer(s).state = "Connected" THEN PermitAuthenticates(s) ELSE PermitDrops(s)]_vars
\* C22: ConnectResponse(Permit) moves a peer to Authenticated, with a
\* ConnectionRequestResponse(accept=true) notification, only when the peer is
\* Connected with peer_info present; in Connected without peer_info, in
\* Authenticated or in Disconnecting it drops the peer and never
\* authenticates it.
C22_ConnectResponsePermit ==
    [][\A s \in Sids :
        PermitHandled(s) =>
            IF MyPeer(s).state = "Connected" /\ MyPeer(s).peer_info # NoneV
            THEN PermitAuthenticates(s)
            ELSE PermitDrops(s)]_vars

\* The reader of s handles a DisconnectRequest for a registered peer in this
\* step; the reader's send of the DisconnectAck completes in this step.
DisconnectRequestHandled(s) ==
    /\ rd[s].pc = "disconnect_request" /\ rd'[s].pc # "disconnect_request"
    /\ MyPeer(s) # NoPeer
DisconnectAckSent(s) ==
    rd[s].pc = "disconnect_request_send" /\ rd'[s].pc # "disconnect_request_send"
\* The request is premature: the reader goes to drop_peer, the peer's state is
\* as it was and nothing is enqueued or notified.
DisconnectPremature(s) ==
    /\ rd'[s].pc = "drop_peer"
    /\ MyPeerAfter(s) = MyPeer(s)
    /\ sess' = sess /\ events' = events
\* The request is taken: Disconnecting(msg), and the DisconnectAck is next.
DisconnectTaken(s) ==
    /\ MyPeerAfter(s) = [MyPeer(s) EXCEPT !.state = "Disconnecting", !.reason = rd[s].msg.message]
    /\ rd'[s].pc = "disconnect_request_send"
    /\ sess' = sess /\ events' = events
\* The send enqueues one DisconnectAck and the reader goes on to drop_peer.
DisconnectAcked(s) ==
    /\ sess' = Enqueue(sess, MyPeer(s).sid, DisconnectAck)
    /\ rd'[s].pc = "drop_peer" /\ rd'[s].drop = NoneV
\* A reader inside drop_peer does not itself hold the guard drop_peer locks.
ReaderDropCanRun(s) == ~(rd[s].pc = "drop_peer" /\ peersLock[sess[s].node] = Rd(s))
\* C23, the Authenticated half up to the DisconnectAck.
C23_DisconnectRequestWhileAuthenticated ==
    [][\A s \in Sids :
        /\ (DisconnectRequestHandled(s) /\ MyPeer(s).state = "Authenticated") => DisconnectTaken(s)
        /\ (DisconnectAckSent(s) /\ ~RxClosed(MyPeer(s).sid)) => DisconnectAcked(s)]_vars
\* C23: a DisconnectRequest received while the peer is Connected (with or
\* without peer info) is premature: the peer is dropped, no DisconnectAck is
\* enqueued and no ConnectionClose is emitted.  Received while Authenticated
\* the peer moves to Disconnecting(msg), a DisconnectAck is enqueued, and on
\* send success drop_peer runs and emits one ConnectionClose carrying msg.
C23_DisconnectRequest ==
    /\ [][\A s \in Sids :
            /\ (DisconnectRequestHandled(s) /\ MyPeer(s).state = "Connected") =>
                  DisconnectPremature(s)
            /\ (DisconnectRequestHandled(s) /\ MyPeer(s).state = "Authenticated") =>
                  DisconnectTaken(s)
            /\ (DisconnectAckSent(s) /\ ~RxClosed(MyPeer(s).sid)) => DisconnectAcked(s)
            /\ (ReaderDrops(s) /\ MyPeer(s).state = "Disconnecting" /\ rd[s].drop = NoneV) =>
                  events'[sess[s].node] =
                     Append(events[sess[s].node],
                            ConnectionClose(sess[s].addr, MyPeer(s).peer_info, MyPeer(s).reason))]_vars
    /\ [](\A s \in Sids : ReaderDropCanRun(s))
\* C23 without its premature half: after the DisconnectAck drop_peer can run.
C23_DropAfterAckCanRun ==
    [](\A s \in Sids : (rd[s].pc = "drop_peer" /\ rd[s].msg.tag = "DisconnectRequest"
                          /\ MyPeer(s).state = "Disconnecting") => ReaderDropCanRun(s))

\* The reader of s handles a DisconnectAck in this step; the drop_peer it
\* called for a DisconnectAck returns in this step.
DisconnectAckHandled(s) == rd[s].pc = "disconnect_ack" /\ rd'[s].pc # "disconnect_ack"
DisconnectAckDrops(s) == ReaderDrops(s) /\ rd[s].msg.tag = "DisconnectAck"
\* C24, the Authenticated and Disconnecting half: drop_peer removes the peer.
C24_DisconnectAckRemoves ==
    [][\A s \in Sids :
        /\ (DisconnectAckHandled(s) /\ MyPeer(s).state \in {"Authenticated", "Disconnecting"}) =>
              rd'[s].pc = "drop_peer"
        /\ DisconnectAckDrops(s) => MyPeerAfter(s) = NoPeer]_vars
\* C24: a DisconnectAck received while the peer is Connected (with or without
\* peer info) is a no-op: the peer stays in the registry with its state
\* unchanged.  Received while Authenticated or Disconnecting it removes the
\* peer via drop_peer.
C24_DisconnectAck ==
    [][\A s \in Sids :
        /\ (DisconnectAckHandled(s) /\ MyPeer(s).state = "Connected") =>
              /\ rd'[s].pc = "read_len"
              /\ active_peers' = active_peers
        /\ (DisconnectAckHandled(s) /\ MyPeer(s).state \in {"Authenticated", "Disconnecting"}) =>
              rd'[s].pc = "drop_peer"
        /\ DisconnectAckDrops(s) =>
              /\ MyPeer(s).state # "Connected"
              /\ MyPeerAfter(s) = NoPeer]_vars

\* The reader of s handles a FileOfferRequest for a registered peer in this
\* step; it inserts the record in this step.
FileOfferHandled(s) ==
    /\ rd[s].pc = "file_offer_request" /\ rd'[s].pc # "file_offer_request"
    /\ MyPeer(s) # NoPeer
FileOfferInserted(s) ==
    rd[s].pc = "file_offer_request_insert" /\ rd'[s].pc # "file_offer_request_insert"
\* What the handler does for a peer in state st, with `status` the status of
\* the record it creates.
FileOfferEffect(s, status) ==
    LET n == sess[s].node
    IN  /\ (FileOfferHandled(s) /\ MyPeer(s).state = "Authenticated") =>
              /\ events'[n] = Append(events[n], FileOfferEv(sess[s].addr, MyPeer(s).peer_info,
                                                            rd[s].msg.id))
              /\ rd'[s].pc = "file_offer_request_insert"
              /\ active_transfers' = active_transfers
        /\ (FileOfferHandled(s) /\ MyPeer(s).state # "Authenticated") =>
              /\ events' = events
              /\ active_transfers' = active_transfers
              /\ rd'[s].pc = "drop_peer"
        /\ FileOfferInserted(s) =>
              /\ active_transfers'[n] =
                    [active_transfers[n] EXCEPT ![rd[s].msg.id] =
                        Transfer(sess[s].addr, "Receiving", status)]
              /\ events' = events
\* C25 as the handler has it: the record is created with status InProgress,
\* and nothing is created or notified for a peer that is not Authenticated.
C25_FileOfferRequestInProgress == [][\A s \in Sids : FileOfferEffect(s, "InProgress")]_vars
\* C25: an inbound FileOfferRequest from an Authenticated peer creates one
\* Receiving record for the offered id with status WaitingForPeerResponse and
\* emits one FileOffer notification; from a peer that is Connected or
\* Disconnecting it creates no record, emits no FileOffer and drops the peer.
C25_FileOfferRequest ==
    /\ [][\A s \in Sids : FileOfferEffect(s, "WaitingForPeerResponse")]_vars
    /\ [](\A s \in Sids : (rd[s].pc = "drop_peer" /\ rd[s].msg.tag = "FileOfferRequest")
                             => ReaderDropCanRun(s))
\* C25, the drop alone.
C25_FileOfferDropCanRun ==
    [](\A s \in Sids : (rd[s].pc = "drop_peer" /\ rd[s].msg.tag = "FileOfferRequest")
                          => ReaderDropCanRun(s))
\* C25, the status alone.
C25_FileOfferStatus ==
    [][\A s \in Sids :
        FileOfferInserted(s) =>
            active_transfers'[sess[s].node][rd[s].msg.id].status = "WaitingForPeerResponse"]_vars

\* The router of n leaves the lookup, the send and the insert of a
\* TransmitFile command in this step.
TransmitLooked(n) == router[n].pc = "transmit_file" /\ router'[n].pc # "transmit_file"
TransmitSent(n) == router[n].pc = "transmit_file_send" /\ router'[n].pc # "transmit_file_send"
TransmitInserted(n) ==
    router[n].pc = "transmit_file_insert" /\ router'[n].pc # "transmit_file_insert"
\* What the handler does, with `status` the status of the record it creates.
TransmitEffect(n, status) ==
    LET c == router[n].cmd
    IN  /\ TransmitLooked(n) =>
              /\ active_transfers' = active_transfers /\ sess' = sess
              /\ IF router'[n].pc = "transmit_file_send"
                 THEN active_peers[n][c.ip] # NoPeer /\ events' = events
                 ELSE /\ router'[n].pc = "idle"
                      /\ Len(events'[n]) = Len(events[n]) + 1
                      /\ events'[n][Len(events'[n])].type = "BadFrontendEvent"
                      /\ events'[n][Len(events'[n])].event = c
        /\ (TransmitLooked(n) /\ active_peers[n][c.ip] = NoPeer) => router'[n].pc = "idle"
        /\ TransmitSent(n) =>
              /\ active_transfers' = active_transfers
              /\ IF router'[n].pc = "transmit_file_insert"
                 THEN sess' = Enqueue(sess, active_peers[n][c.ip].sid,
                                      FileOfferRequestMsg(c.unique_id))
                 ELSE sess' = sess /\ router'[n].pc = "drop_peer"
        /\ TransmitInserted(n) =>
              /\ active_transfers[n][c.unique_id] = NoTransfer
              /\ active_transfers'[n] =
                    [active_transfers[n] EXCEPT ![c.unique_id] = Transfer(c.ip, "Sending", status)]
        /\ \A id \in TransferIds :
              (/\ active_transfers'[n][id] # active_transfers[n][id]
               /\ active_transfers'[n][id].direction = "Sending"
               /\ active_transfers[n][id].direction # "Sending") => TransmitInserted(n)
\* C26 as the handler has it: the record is created with status InProgress.
C26_TransmitFileInProgress == [][\A n \in Nodes : TransmitEffect(n, "InProgress")]_vars
\* C26: TransmitFile inserts a Sending record with a fresh id and status
\* WaitingForPeerResponse if and only if the FileOfferRequest was enqueued to
\* the peer; if the enqueue fails the peer is dropped and no record is
\* inserted; if the peer is not in the registry a BadFrontendEvent is emitted
\* and no record is inserted.
C26_TransmitFile == [][\A n \in Nodes : TransmitEffect(n, "WaitingForPeerResponse")]_vars

\* The router of n leaves the lookup and the send of a Disconnect command in
\* this step.
DisconnectLooked(n) == router[n].pc = "disconnect" /\ router'[n].pc # "disconnect"
DisconnectSent(n) == router[n].pc = "disconnect_send" /\ router'[n].pc # "disconnect_send"
\* A router inside drop_peer does not itself hold the guard drop_peer locks.
RouterDropCanRun(n) == ~(router[n].pc = "drop_peer" /\ peersLock[n] = Rt(n))
\* The peer a Disconnect command may close: Connected(info) or Authenticated.
Closable(p) == (p.state = "Connected" /\ p.peer_info # NoneV) \/ p.state = "Authenticated"
\* C27 for the absent peer and for the peer in Connected(info) or
\* Authenticated.
C27_DisconnectOpenPeer ==
    [][\A n \in Nodes :
        LET c == router[n].cmd
            p == active_peers[n][c.ip]
        IN  /\ (DisconnectLooked(n) /\ p = NoPeer) =>
                  /\ events'[n] = Append(events[n], BadFrontendEvent(c, "Peer is not connected"))
                  /\ active_peers' = active_peers /\ sess' = sess
                  /\ router'[n].pc = "idle"
            /\ (DisconnectSent(n) /\ Closable(p) /\ ~RxClosed(p.sid)) =>
                  /\ active_peers'[n][c.ip] =
                        [p EXCEPT !.state = "Disconnecting", !.reason = c.message]
                  /\ sess' = Enqueue(sess, p.sid, DisconnectRequestMsg(c.message))
                  /\ router'[n].pc = "idle"]_vars
\* C27: the Disconnect command, for a peer in Connected(info) or
\* Authenticated, moves the peer to Disconnecting(message) and enqueues
\* exactly one DisconnectRequest(message); for a peer already Disconnecting,
\* and when the enqueue fails, it removes the peer via drop_peer and the
\* command completes; for an absent peer it emits BadFrontendEvent and
\* changes nothing.
C27_Disconnect ==
    /\ C27_DisconnectOpenPeer
    /\ [][\A n \in Nodes :
            LET p == active_peers[n][router[n].cmd.ip]
            IN  (DisconnectSent(n) /\ (p.state = "Disconnecting" \/ RxClosed(p.sid))) =>
                    router'[n].pc = "drop_peer"]_vars
    /\ [](\A n \in Nodes :
            (router[n].cmd.type = "DisconnectRequest" /\ router[n].drop # PeerInfoNotSet) =>
                RouterDropCanRun(n))

\* shutdown() of node n is about to drain a registry that holds the peer of
\* address a in state st, for which the UI has had no notification yet.
ShutdownFinds(n, a, st) ==
    /\ router[n].pc = "shutdown_drain"
    /\ active_peers[n][a].state = st
    /\ notified[active_peers[n][a].sid] = 0
\* The UI of n has been sent a notification of type ty about address a.
Told(n, a, ty) == \E i \in 1..Len(events[n]) : events[n][i].type = ty /\ events[n][i].ip = a
\* What the drop_peer of shutdown() meets: its own guard and an empty registry.
C28_ShutdownDropBlocked ==
    \A n \in Nodes :
        (router[n].pc = "drop_peer" /\ router[n].cmd = ShutdownCmd) =>
            /\ peersLock[n] = Rt(n)
            /\ \A a \in DOMAIN active_peers[n] : active_peers[n][a] = NoPeer
\* C28: during Shutdown, drop_peer is applied to each session that was
\* registered: every Authenticated peer yields one ConnectionBroken and every
\* Disconnecting peer one ConnectionClose.
C28_ShutdownNotifies ==
    \A n \in Nodes : \A a \in AddrsOf(n) :
        /\ ShutdownFinds(n, a, "Authenticated") ~> Told(n, a, "ConnectionBroken")
        /\ ShutdownFinds(n, a, "Disconnecting") ~> Told(n, a, "ConnectionClose")

\* The shutdown() that Restart calls is able to return: its drop_peer is not
\* called under the guard drop_peer locks.
C29_RestartShutdownReturns ==
    \A n \in Nodes : router[n].cmd = RestartCmd => RouterDropCanRun(n)
\* Once the shutdown() of Restart has returned and the signal is gone, Restart
\* spawns one PeerManager::start and sends BackendReady.
C29_RestartStarts ==
    [][\A n \in Nodes :
        (router[n].cmd = RestartCmd /\ router[n].pc = "start" /\ router'[n].pc # "start"
            /\ ~shutdown_tx[n]) =>
            /\ events'[n] = Append(events[n], BackendReady)
            /\ accept'[n].spawned = accept[n].spawned + 1
            /\ router'[n].pc = "idle"]_vars
\* C29: Restart performs Shutdown then Start: Restart while the engine runs
\* gets through its shutdown of the sessions registered before, and then
\* starts the engine again and emits BackendReady.
C29_Restart ==
    /\ C29_RestartStarts
    /\ []C29_RestartShutdownReturns

\* The diagnostics of a payload that does not decode and of a decoded length
\* that differs from the framed one.
BadFrameReasons == {DeserializeFailed, LengthMismatch}
\* The reader of s leaves read_exact with a payload it refuses.
BadFrameRead(s) ==
    /\ rd[s].pc = "read_len"
    /\ rd'[s].pc = "drop_peer" /\ rd'[s].drop \in BadFrameReasons
\* The drop_peer the reader called for a refused payload returns.
BadFrameDropped(s) ==
    /\ rd[s].pc = "drop_peer" /\ rd[s].drop \in BadFrameReasons
    /\ rd'[s].pc # "drop_peer"
\* C30: a framed payload that fails to decode, or whose decoded length
\* differs from the framed length, is never dispatched to a handler (what a
\* handler works on is a message whose encoding has exactly the framed
\* length); the reader drops the peer with the diagnostic and stops reading.
C30_BadFrame ==
    /\ [](\A s \in Sids :
            rd[s].msg # NoMsg => rd[s].msg # Garbage /\ EncodedLen(rd[s].msg) = rd[s].len)
    /\ [][\A s \in Sids :
            /\ BadFrameRead(s) =>
                  /\ rd'[s].msg = NoMsg /\ rd'[s].ret = "break"
                  /\ peersLock[sess[s].node] # Rd(s)
            /\ BadFrameDropped(s) =>
                  /\ MyPeerAfter(s) = NoPeer
                  /\ events'[sess[s].node] =
                        events[sess[s].node] \o DropPeerEvent(MyPeer(s), sess[s].addr, rd[s].drop)
                  /\ rd'[s].pc = "ended"]_vars
\* A reader has ended on a decoded length that differs from the framed one,
\* and its peer is out of the registry.
C30_Witness ==
    \E s \in Sids : rd[s].pc = "ended" /\ rd[s].drop = LengthMismatch /\ MyPeer(s) = NoPeer

\* The reader of s has dispatched a KeepAlive whose reply is not enqueued yet
\* (the ten seconds of sleep, the wait for the registry, the send).
KeepAliveReplyPending(s) == rd[s].msg = KeepAlive
\* The reply to a KeepAlive is enqueued, or given up, in this step.
KeepAliveReplied(s) == KeepAliveReplyPending(s) /\ ~KeepAliveReplyPending(s)'
\* While a reply is pending the reader is at its read_exact.
C31_ReaderReadsDuringDelay ==
    \A s \in Sids : KeepAliveReplyPending(s) => rd[s].pc = "read_len"
\* C31: the keep-alive reply delay runs as its own deferred task: a message
\* that arrived while the reply was pending has been read and dispatched by
\* the time the delayed KeepAlive is enqueued.
C31_KeepAliveDeferred ==
    [][\A s \in Sids : KeepAliveReplied(s) => sess[s].inbox = <<>>]_vars

\* The router of n leaves the step that answers an offer with accept and
\* creates the destination file, the answer having been enqueued.
OfferAccepted(n) ==
    /\ router[n].pc = "file_offer_response_send"
    /\ router'[n].pc # "file_offer_response_send"
    /\ router[n].cmd.accept
    /\ router'[n].pc # "panicked"
\* The reader of s leaves the step that opens the source file of an offer the
\* peer accepted.
AcceptLearned(s) ==
    /\ rd[s].pc = "file_offer_response_update"
    /\ rd'[s].pc # "file_offer_response_update"
    /\ active_transfers[sess[s].node][rd[s].msg.id] # NoTransfer
    /\ active_transfers[sess[s].node][rd[s].msg.id].direction = "Sending"
    /\ rd[s].msg.accept
\* The step tells the UI of n about a failed transfer.
ToldTransferError(n) ==
    /\ Len(events'[n]) = Len(events[n]) + 1
    /\ events'[n][Len(events'[n])].type = "FileTransferError"
\* C32: the step that has to create the destination file, or to open the
\* source file, either gets its file (the record goes on) or moves the record
\* to Error and emits FileTransferError; the task that took the step keeps
\* running.
C32_LocalIoFailure ==
    [][/\ \A n \in Nodes :
            LET id == ParseUuid(router[n].cmd.unique_id).value
            IN  OfferAccepted(n) =>
                  /\ router'[n].pc = "idle"
                  /\ \/ active_transfers'[n][id].status = "InProgress" /\ events'[n] = events[n]
                     \/ active_transfers'[n][id].status = "Error" /\ ToldTransferError(n)
       /\ \A s \in Sids :
            LET n == sess[s].node
                id == rd[s].msg.id
            IN  AcceptLearned(s) =>
                  /\ rd'[s].pc = "read_len"
                  /\ \/ active_transfers'[n][id].status = "InProgress" /\ events'[n] = events[n]
                     \/ active_transfers'[n][id].status = "Error" /\ ToldTransferError(n)]_vars
\* The part of C32 about the sender only.
C32_OpenFailure ==
    [][\A s \in Sids :
            LET n == sess[s].node
                id == rd[s].msg.id
            IN  AcceptLearned(s) =>
                  /\ rd'[s].pc = "read_len"
                  /\ \/ active_transfers'[n][id].status = "InProgress" /\ events'[n] = events[n]
                     \/ active_transfers'[n][id].status = "Error" /\ ToldTransferError(n)]_vars

\* The router of n takes a step of the retry loop of the Connect command, and
\* the step that sends ConnectRequest.
ConnectPolled(n) == router[n].pc = "connect_poll" /\ router'[n] # router[n]
\* The step in which the router of n handles the Connect command up to the
\* end of connect(), or up to the address that does not parse.
ConnectHandled(n) == router[n].pc = "connect" /\ router'[n] # router[n]
ConnectSent(n) == router[n].pc = "connect_send" /\ router'[n] # router[n]
\* The Connect command is answered with BadFrontendEvent and nothing else
\* changes.
ConnectAnswered(n, error) ==
    /\ events'[n] = Append(events[n], BadFrontendEvent(router[n].cmd, error))
    /\ sess' = sess /\ active_peers' = active_peers /\ active_transfers' = active_transfers
    /\ router'[n].pc = "idle"
C34_DropPeerNotUnderGuard ==
    /\ \A s \in Sids : ReaderDropCanRun(s)
    /\ \A n \in Nodes : RouterDropCanRun(n)
\* The readers alone, and the routers alone.
C34_ReaderDropNotUnderGuard == \A s \in Sids : ReaderDropCanRun(s)
C34_RouterDropNotUnderGuard == \A n \in Nodes : RouterDropCanRun(n)

\* The registry entry of the address of s belongs to another session.
Superseded(s) ==
    /\ active_peers[sess[s].node][sess[s].addr] # NoPeer
    /\ active_peers[sess[s].node][sess[s].addr].sid # s
\* C35: a drop_peer issued by the reader or writer task of a session removes
\* only that session: when the address has been registered again by a newer
\* session, the newer session stays in the registry and no notification is
\* emitted for it.
C35_DropOnlyOwnSession ==
    [][\A s \in Sids :
        ((ReaderDrops(s) \/ WriterDrops(s)) /\ Superseded(s)) =>
            /\ MyPeerAfter(s) = MyPeer(s)
            /\ events' = events]_vars

\* Shutdown of n has returned and nothing has started the engine again: the
\* signal is gone, the accept loop has stopped, no start is on its way and
\* the router is back at its channel.
StoppedByShutdown(n) ==
    /\ ~shutdown_tx[n]
    /\ accept[n].st = "stopped" /\ accept[n].spawned = 0
    /\ router[n].pc = "idle"
\* C36: once Shutdown has returned and until the next Start the registry
\* stays empty, also when a connection made before Shutdown is handed to
\* handle_connection after the registry was drained.
C36_EmptyWhileStopped ==
    \A n \in Nodes :
        StoppedByShutdown(n) => \A a \in AddrsOf(n) : active_peers[n][a] = NoPeer

\* The writer of s is handed a message, and finds its channel closed, in
\* this step.
WriterTakes(s) == wr[s].pc = "recv" /\ wr'[s].pc = "write"
WriterClosed(s) == wr[s].pc = "recv" /\ wr'[s].pc = "ended"
\* The outbox of s after the step is the outbox before it, or that without
\* its head, or that with one message behind its last.
OutboxFifo(s) ==
    LET o == sess[s].outbox
        p == sess'[s].outbox
    IN  \/ p = o
        \/ o # <<>> /\ p = Tail(o)
        \/ Len(p) = Len(o) + 1 /\ SubSeq(p, 1, Len(o)) = o
ReaderEnds(s) == ~Gone(rd[s].pc) /\ Gone(rd'[s].pc)
\* C38: the reader task of a session ends only out of a drop_peer it called:
\* no decoded message of any variant and no failed send terminates the reader
\* while its peer is still in the registry.
C38_ReaderEndsThroughDropPeer ==
    [][\A s \in Sids :
        ReaderEnds(s) => (rd[s].pc = "drop_peer" /\ ~Registered(s)')]_vars
\* The same for the readers that do not end on a chunk message.
C38_ReaderEndsButChunks ==
    [][\A s \in Sids :
        (ReaderEnds(s) /\ rd[s].pc # "read_len") =>
            (rd[s].pc = "drop_peer" /\ ~Registered(s)')]_vars

\* The reader of s leaves the step that applies a FileOfferResponse to the
\* record it names.
OfferResponseApplied(s) ==
    /\ rd[s].pc = "file_offer_response_update"
    /\ rd'[s].pc # "file_offer_response_update"
    /\ active_transfers[sess[s].node][rd[s].msg.id] # NoTransfer
\* C39: an inbound FileOfferResponse from peer P changes the status of a
\* transfer record only if that record's peer is P.
C39_ResponseFromOwnPeer ==
    [][\A s \in Sids :
        LET n == sess[s].node
            id == rd[s].msg.id
        IN  (OfferResponseApplied(s) /\ active_transfers[n][id].peer # sess[s].addr) =>
                active_transfers'[n][id].status = active_transfers[n][id].status]_vars

\* The router task of n has ended in a panic, or waits for the registry
\* mutex inside drop_peer while holding that mutex itself: it receives no
\* further command.
RouterGone(n) == router[n].pc = "panicked" \/ ~RouterDropCanRun(n)
\* C40: the router survives every command: after handling any command
\* variant, valid or invalid, the router task is still running and handles
\* the next submitted command.
C40_RouterSurvives == \A n \in Nodes : ~RouterGone(n)
\* C40, the arms that have a handler: the router does not end while it runs
\* the handler of a command it has dispatched.
C40_RouterSurvivesHandlers ==
    [][\A n \in Nodes :
        (router[n].pc \notin {"idle", "await_ready", "none"} /\ ~RouterGone(n)) =>
            ~RouterGone(n)']_vars

====
